---------------------------- MODULE Spec2Model ----------------------------
(***************************************************************************)
(* Model of WalletManager (src/src/apps/wallets/manager.py): the request   *)
(* classifier parse_stream and the signing pipeline process_host_command / *)
(* sign_psbt.                                                              *)
(*                                                                         *)
(* Byte strings are sequences of byte values (0..255).  The collaborators  *)
(* that live outside manager.py (the PSBT container, Wallet, the keystore, *)
(* the GUI) appear as the values they hand back: the decoded structure is  *)
(* drawn when the container is read, a user's answer when a screen         *)
(* returns.                                                                *)
(***************************************************************************)
EXTENDS Integers, Sequences, FiniteSets, TLC

(***************************************************************************)
(* Bounds of the model.                                                    *)
(***************************************************************************)
\* number of chunks a classified stream is assembled from
MaxChunks == 3
\* number of inputs of a decoded transaction
MaxInputs == 2

(***************************************************************************)
(* Command codes (manager.py lines 25-39).                                 *)
(***************************************************************************)
SIGN_PSBT == 1
ADD_WALLET == 2
VERIFY_ADDRESS == 3
DERIVE_ADDRESS == 4
SIGN_BCUR == 5
ADD_ASSET == 6
DUMP_ASSETS == 7
\* the code's None, as returned by parse_stream for an unrecognised stream
NoCmd == 0

BASE64_STREAM == 100
RAW_STREAM == 255

\* stream.read(40) in parse_stream
PeekLen == 40

(***************************************************************************)
(* Byte strings used by the classifier.                                    *)
(***************************************************************************)
BUrBytes == <<85, 82, 58, 66, 89, 84, 69, 83, 47>>        \* b"UR:BYTES/"
BBitcoinLower == <<98, 105, 116, 99, 111, 105, 110, 58>>  \* b"bitcoin:"
BBitcoinUpper == <<66, 73, 84, 67, 79, 73, 78, 58>>       \* b"BITCOIN:"
BIndexEq == <<105, 110, 100, 101, 120, 61>>               \* b"index="
BAmp == <<38>>                                            \* b"&"
BQuestion == <<63>>                                       \* b"?"
BSpace == <<32>>                                          \* b" "
PSBT_MAGIC == <<112, 115, 98, 116, 255>>                  \* b"psbt\xff"
PSET_MAGIC == <<112, 115, 101, 116, 255>>                 \* b"pset\xff"
BSign == <<115, 105, 103, 110>>                           \* b"sign"
BShowaddr == <<115, 104, 111, 119, 97, 100, 100, 114>>    \* b"showaddr"
BAddwallet == <<97, 100, 100, 119, 97, 108, 108, 101, 116>>        \* b"addwallet"
BAddasset == <<97, 100, 100, 97, 115, 115, 101, 116>>              \* b"addasset"
BDumpassets == <<100, 117, 109, 112, 97, 115, 115, 101, 116, 115>> \* b"dumpassets"

Networks == {"main", "liquidv1"}

\* helpers.is_liquid(network)
is_liquid(net) == net = "liquidv1"

(***************************************************************************)
(* Byte-string helpers: slicing, find, startswith as Python's bytes has    *)
(* them.                                                                   *)
(***************************************************************************)
Min(a, b) == IF a < b THEN a ELSE b

\* data[:n]
Take(s, n) == SubSeq(s, 1, Min(n, Len(s)))

\* data[p:p+n] for a stream at position p: stream.read(n)
ReadAt(s, p, n) == SubSeq(s, p + 1, Min(p + n, Len(s)))

\* data.startswith(pre)
StartsWith(s, pre) == Len(s) >= Len(pre) /\ SubSeq(s, 1, Len(pre)) = pre

\* pat in data
Contains(s, pat) ==
    \E i \in 1..(Len(s) - Len(pat) + 1) : SubSeq(s, i, i + Len(pat) - 1) = pat

(***************************************************************************)
(* binascii.a2b_base64 of the platform: characters outside the base64      *)
(* alphabet are skipped, "=" ends the data when it completes a quantum,    *)
(* and the call raises exactly when bits are left over at the end.         *)
(***************************************************************************)
Sextet(c) ==
    IF c >= 65 /\ c <= 90 THEN c - 65
    ELSE IF c >= 97 /\ c <= 122 THEN c - 71
    ELSE IF c >= 48 /\ c <= 57 THEN c + 4
    ELSE IF c = 43 THEN 62
    ELSE IF c = 47 THEN 63
    ELSE -1

Pow2(n) == IF n = 0 THEN 1 ELSE IF n = 2 THEN 4 ELSE IF n = 4 THEN 16 ELSE 64

RECURSIVE A2BLoop(_, _, _, _, _, _)
A2BLoop(data, i, shift, nbits, hadpad, out) ==
    IF i > Len(data) THEN [ok |-> nbits = 0, bytes |-> out]
    ELSE LET c == data[i]
             pad == c = 61
         IN  IF pad /\ (nbits = 2 \/ (nbits = 4 /\ hadpad))
             THEN [ok |-> TRUE, bytes |-> out]
             ELSE IF Sextet(c) = -1
             THEN A2BLoop(data, i + 1, shift, nbits, hadpad \/ pad, out)
             ELSE LET sh == (shift * 64 + Sextet(c)) % 16384
                      nb == nbits + 6
                  IN  IF nb >= 8
                      THEN A2BLoop(data, i + 1, sh % Pow2(nb - 8), nb - 8, FALSE,
                                   Append(out, (sh \div Pow2(nb - 8)) % 256))
                      ELSE A2BLoop(data, i + 1, sh, nb, FALSE, out)

a2b_base64(data) == A2BLoop(data, 1, 0, 0, FALSE, <<>>)

(***************************************************************************)
(* BaseApp.get_prefix: the stream's first word.  The leading PrefixLen     *)
(* bytes are read; without a space among them there is no prefix and the   *)
(* stream is rewound, otherwise the prefix is the bytes before the first   *)
(* space and the stream is left just after that space.                     *)
(***************************************************************************)
PrefixLen == 20

FirstSpace(data) == CHOOSE i \in 1..Len(data) :
                        data[i] = 32 /\ \A j \in 1..(i - 1) : data[j] # 32

get_prefix(s, p) ==
    LET data == ReadAt(s, p, PrefixLen)
    IN  IF ~Contains(data, BSpace)
        THEN [found |-> FALSE, prefix |-> <<>>, pos |-> 0]
        ELSE [found |-> TRUE,
              prefix |-> SubSeq(data, 1, FirstSpace(data) - 1),
              pos |-> p + FirstSpace(data)]

(***************************************************************************)
(* parse_stream, lines 147-193.  Each operator returns the command and the *)
(* position the stream is left at.                                         *)
(***************************************************************************)
\* PrefixCommand with the network test of lines 157 and 159 left out
PrefixCommandAnyNetwork(prefix, at, net) ==
    IF prefix = BSign THEN [cmd |-> SIGN_PSBT, pos |-> at]
    ELSE IF prefix = BShowaddr THEN [cmd |-> DERIVE_ADDRESS, pos |-> at]
    ELSE IF prefix = BAddwallet THEN [cmd |-> ADD_WALLET, pos |-> at]
    ELSE IF prefix = BAddasset THEN [cmd |-> ADD_ASSET, pos |-> at]
    ELSE IF prefix = BDumpassets THEN [cmd |-> DUMP_ASSETS, pos |-> at]
    ELSE [cmd |-> NoCmd, pos |-> at]

\* lines 150-162: a prefix was found
PrefixCommand(prefix, at, net) ==
    IF prefix = BSign THEN [cmd |-> SIGN_PSBT, pos |-> at]
    ELSE IF prefix = BShowaddr THEN [cmd |-> DERIVE_ADDRESS, pos |-> at]
    ELSE IF prefix = BAddwallet THEN [cmd |-> ADD_WALLET, pos |-> at]
    ELSE IF is_liquid(net) /\ prefix = BAddasset THEN [cmd |-> ADD_ASSET, pos |-> at]
    ELSE IF is_liquid(net) /\ prefix = BDumpassets THEN [cmd |-> DUMP_ASSETS, pos |-> at]
    ELSE [cmd |-> NoCmd, pos |-> at]

\* TextHeuristics with the rewind of line 183 left out
TextHeuristicsNoRewind(data, after) ==
    IF Contains(data, BAmp) /\ ~Contains(data, BQuestion)
    THEN [cmd |-> ADD_WALLET, pos |-> after]
    ELSE IF StartsWith(data, BBitcoinLower) \/ StartsWith(data, BBitcoinUpper)
            \/ Contains(data, BIndexEq)
    THEN IF StartsWith(data, BBitcoinLower) \/ StartsWith(data, BBitcoinUpper)
         THEN [cmd |-> VERIFY_ADDRESS, pos |-> 8]
         ELSE [cmd |-> VERIFY_ADDRESS, pos |-> 0]
    ELSE [cmd |-> NoCmd, pos |-> after]

\* lines 180-193: the descriptor and the address heuristics; after is the
\* position read(40) left the stream at
TextHeuristics(data, after) ==
    IF Contains(data, BAmp) /\ ~Contains(data, BQuestion)
    THEN [cmd |-> ADD_WALLET, pos |-> 0]
    ELSE IF StartsWith(data, BBitcoinLower) \/ StartsWith(data, BBitcoinUpper)
            \/ Contains(data, BIndexEq)
    THEN IF StartsWith(data, BBitcoinLower) \/ StartsWith(data, BBitcoinUpper)
         THEN [cmd |-> VERIFY_ADDRESS, pos |-> 8]
         ELSE [cmd |-> VERIFY_ADDRESS, pos |-> 0]
    ELSE [cmd |-> NoCmd, pos |-> after]

\* lines 171-179: the try block around a2b_base64; a raise falls through to
\* the text heuristics, a successful decode returns from inside the block
Base64Heuristic(data, after) ==
    LET dec == a2b_base64(data)
    IN  IF dec.ok
        THEN IF Take(dec.bytes, Len(PSBT_MAGIC)) \notin {PSBT_MAGIC, PSET_MAGIC}
             THEN [cmd |-> NoCmd, pos |-> after]
             ELSE [cmd |-> SIGN_PSBT, pos |-> 0]
        ELSE TextHeuristics(data, after)

\* lines 166-193: no prefix
Heuristics(s, p) ==
    LET data == ReadAt(s, p, PeekLen)
        after == p + Len(data)
    IN  IF Take(data, 9) = BUrBytes
        THEN [cmd |-> SIGN_BCUR, pos |-> 0]
        ELSE Base64Heuristic(data, after)

parse_stream(s, p, net) ==
    LET pre == get_prefix(s, p)
    IN  IF pre.found
        THEN PrefixCommand(pre.prefix, pre.pos, net)
        ELSE Heuristics(s, pre.pos)

(***************************************************************************)
(* The streams the classifier is run on: up to MaxChunks chunks, each a    *)
(* piece of text the heuristics look for or base64 text, and the command   *)
(* prefixes followed by one chunk.                                         *)
(***************************************************************************)
B64Psbt == <<99, 72, 78, 105, 100, 80, 56, 66>>   \* base64 of b"psbt\xff\x01"
B64Pset == <<99, 72, 78, 108, 100, 80, 56, 66>>   \* base64 of b"pset\xff\x01"
BText == <<97, 98>>                               \* b"ab"
\* 36 base64 characters: with one more chunk the text passes the 40 bytes read
BLong == [i \in 1..36 |-> 97]

Chunks == {BUrBytes, B64Psbt, B64Pset, BBitcoinLower, BBitcoinUpper, BIndexEq,
           BAmp, BQuestion, BText, BLong}

Prefixes == {BSign, BShowaddr, BAddwallet, BAddasset, BDumpassets, BText}

RECURSIVE Bodies(_)
Bodies(n) == IF n = 0 THEN {<<>>}
             ELSE Bodies(n - 1) \cup {b \o c : b \in Bodies(n - 1), c \in Chunks}

StreamSet == Bodies(MaxChunks)
             \cup {p \o BSpace \o c : p \in Prefixes, c \in Chunks}

(***************************************************************************)
(* Sighash flags (bitcoin.liquid.transaction.LSIGHASH) and SIGHASH_NAMES,  *)
(* lines 41-51.                                                            *)
(***************************************************************************)
SIGHASH_ALL == 1
SIGHASH_NONE == 2
SIGHASH_SINGLE == 3
SIGHASH_ANYONECANPAY == 128
SIGHASH_RANGEPROOF == 64
\* sighash = None at line 332: sign with whatever each input declares
NoSighash == 0

SighashNamed ==
    LET base == {SIGHASH_ALL, SIGHASH_NONE, SIGHASH_SINGLE}
        acp == base \cup {sh + SIGHASH_ANYONECANPAY : sh \in base}
    IN  acp \cup {sh + SIGHASH_RANGEPROOF : sh \in acp}

\* line 295
DefaultSighash(net) ==
    IF is_liquid(net) THEN SIGHASH_ALL + SIGHASH_RANGEPROOF ELSE SIGHASH_ALL

(***************************************************************************)
(* The decoded structure.  An input carries whether previous-output data   *)
(* is there (is_verified, witness_utxo or non_witness_utxo), its declared  *)
(* sighash_type (0: none declared), its asset and value, and partial_sigs  *)
(* as the set of keys that have signed.  An output carries its asset; its  *)
(* blinding fields (whether the b'\xfc\x07specter\x01' nonce is in          *)
(* out.unknown, whether it has a range_proof) are read by lines 387-419    *)
(* only and are drawn where they are read.  digest is                      *)
(* tx._hash_outputs_rangeproofs.                                           *)
(***************************************************************************)
\* number of outputs of a decoded transaction
MaxOutputs == 1

\* assets; "tBTC" is the key of the built-in entry of WalletManager.assets
AssetTBTC == "tBTC-id"
InputAssets(net) == IF is_liquid(net) THEN {AssetTBTC, "U1"} ELSE {"none"}
OutputAssets(net) == IF is_liquid(net) THEN {AssetTBTC, "U2"} ELSE {"none"}

\* keys that sign: one per wallet holding private keys, and the keystore's
KeystoreKey == "ks"

InputCores ==
    [utxo : BOOLEAN,
     sighash : {0, SIGHASH_ALL, SIGHASH_ALL + SIGHASH_RANGEPROOF}]

OutputSet(net) == [asset : OutputAssets(net)]

\* the blinding fields of an output; one that carries the nonce field has
\* its proofs made anew, so its range_proof is not read
BlindingFields ==
    {o \in [nonce : BOOLEAN, range_proof : BOOLEAN] : ~(o.nonce /\ o.range_proof)}

MakeInput(c, asset, pre) ==
    [utxo |-> c.utxo, sighash |-> c.sighash, asset |-> asset, value |-> 1,
     sigs |-> pre]

\* the structures PSBTClass.read_from hands back on network net: the inputs
\* spend one asset, the outputs pay one asset, and the signatures already
\* present are none, or the keystore's own on each input
PsbtSet(net) ==
    {[inputs |-> [i \in 1..Len(cs) |-> MakeInput(cs[i], asset, pre)],
      outputs |-> [i \in 1..n |-> oa], digest |-> FALSE] :
        cs \in UNION {[1..n -> InputCores] : n \in 1..MaxInputs},
        asset \in InputAssets(net),
        pre \in {{}, {KeystoreKey}},
        oa \in OutputSet(net),
        n \in 1..MaxOutputs}

NoPsbt == [inputs |-> <<>>, outputs |-> <<>>, digest |-> FALSE]

\* sum over the inputs of len(inp.partial_sigs), lines 423-425 and 438-440
RECURSIVE SigCount(_, _)
SigCount(p, i) ==
    IF i > Len(p.inputs) THEN 0
    ELSE Cardinality(p.inputs[i].sigs) + SigCount(p, i + 1)

(***************************************************************************)
(* parse_psbt, lines 647-783.  owns[i] is the set of wallets (positions in *)
(* self.wallets) whose owns() accepts input i; the wallet list is tried in *)
(* order.  A spend-summary entry holds the wallet's position, 0 for None.  *)
(***************************************************************************)
InSeq(s, x) == \E i \in 1..Len(s) : s[i] = x

\* list.index(x)
IndexOf(s, x) == CHOOSE i \in 1..Len(s) : s[i] = x /\ \A j \in 1..(i - 1) : s[j] # x

\* FirstOwner taking the last wallet of the list that owns the input
FirstOwnerLast(ownset, nwallets) ==
    IF \E w \in 1..nwallets : w \in ownset
    THEN CHOOSE w \in 1..nwallets :
             w \in ownset /\ \A v \in (w + 1)..nwallets : v \notin ownset
    ELSE 0

\* lines 696-713: the first wallet of the list that owns the input, else 0
FirstOwner(ownset, nwallets) ==
    IF \E w \in 1..nwallets : w \in ownset
    THEN CHOOSE w \in 1..nwallets :
             w \in ownset /\ \A v \in 1..(w - 1) : v \notin ownset
    ELSE 0

\* lines 706-720: fold an input's value into the entry of wallet w
AddSpend(acc, w, value) ==
    IF ~InSeq(acc.ws, w)
    THEN [acc EXCEPT !.ws = Append(@, w), !.am = Append(@, value)]
    ELSE [acc EXCEPT !.am[IndexOf(acc.ws, w)] = @ + value]

\* lines 685-690 and 730-736: an asset without a label is collected once
AddUnknown(acc, asset, known, net) ==
    IF is_liquid(net) /\ asset \notin known /\ ~InSeq(acc.ua, asset)
    THEN [acc EXCEPT !.ua = Append(@, asset)]
    ELSE acc

\* lines 680-720
RECURSIVE MatchInputs(_, _, _, _, _, _, _)
MatchInputs(p, i, acc, owns, nwallets, known, net) ==
    IF i > Len(p.inputs) THEN acc
    ELSE LET inp == p.inputs[i]
             a1 == AddUnknown(acc, inp.asset, known, net)
             sh == IF inp.sighash # 0 THEN inp.sighash ELSE SIGHASH_ALL
             a2 == IF sh \notin SighashNamed /\ a1.raised = "no"
                   THEN [a1 EXCEPT !.raised = "KeyError"] ELSE a1
             a3 == AddSpend(a2, FirstOwner(owns[i], nwallets), inp.value)
         IN  MatchInputs(p, i + 1, a3, owns, nwallets, known, net)

\* lines 722-725: line 725 appends to the undefined name warnings
InputWarnings(acc) ==
    LET a1 == IF InSeq(acc.ws, 0)
              THEN [acc EXCEPT !.warnings = Append(@, "Unknown wallet in input!")]
              ELSE acc
    IN  IF Len(a1.ws) > 1 /\ a1.raised = "no"
        THEN [a1 EXCEPT !.raised = "NameError"]
        ELSE a1

\* lines 728-736
RECURSIVE MatchOutputs(_, _, _, _, _)
MatchOutputs(p, i, acc, known, net) ==
    IF i > Len(p.outputs) THEN acc
    ELSE MatchOutputs(p, i + 1, AddUnknown(acc, p.outputs[i].asset, known, net),
                      known, net)

parse_psbt(p, owns, nwallets, known, net) ==
    LET start == [ws |-> <<>>, am |-> <<>>, ua |-> <<>>, warnings |-> <<>>,
                  raised |-> "no"]
        ins == InputWarnings(MatchInputs(p, 1, start, owns, nwallets, known, net))
        fin == IF ins.raised # "no" THEN ins ELSE MatchOutputs(p, 1, ins, known, net)
    IN  [raised |-> fin.raised,
         wallets |-> [k \in 1..Len(fin.ws) |-> [w |-> fin.ws[k], amount |-> fin.am[k]]],
         unknown_assets |-> fin.ua,
         warnings |-> fin.warnings]

(***************************************************************************)
(* State.                                                                  *)
(***************************************************************************)
VARIABLES
    network,        \* self.network, the active network
    stream,         \* the bytes of the host's stream
    pos,            \* the stream's read position
    phase,          \* classifier runs: "new", "classified", "reclassified"
    cmd,            \* the kind parse_stream returned
    cmd2,           \* the kind a second parse_stream from position 0 returned
    pc,             \* where process_host_command / sign_psbt stands
    tempdir,        \* the files under self.tempdir
    encoding,       \* sign_psbt's encoding argument
    psbt,           \* the decoded structure
    psbt0,          \* the structure as it was decoded
    sighash,        \* sign_psbt's local sighash
    owns,           \* Wallet.owns per input: the wallets that own it
    spend,          \* sign_psbt's local wallets: the spend summary
    unknown_assets, \* meta["unknown_assets"] of the last parse_psbt
    label_i,        \* position of the labelling loop in unknown_assets
    assets,         \* self.assets: asset id -> label
    disk_assets,    \* what save_assets last wrote
    wallets,        \* self.wallets
    disk_wallets,   \* what Wallet.save last wrote, per wallet
    sign_i,         \* position of the signing loop in the spend summary
    sigsStart,      \* sign_psbt's local sigsStart
    log,            \* screens shown and collaborator calls made, in order
    result,         \* "pending", or how process_host_command ended
    uid,            \* self.keystore.uid, the identity that is active
    dirs,           \* the numeric folders under self.path: slot -> wallet
    files,          \* the asset files under self.root_path: path -> labels
    meta            \* what the last operation handed back beside result

storeVars == <<uid, dirs, files, meta>>
clsVars == <<network, stream, pos, phase, cmd, cmd2, storeVars>>
signVars == <<pc, tempdir, encoding, psbt, psbt0, sighash, owns, spend,
              unknown_assets, label_i, assets, disk_assets, wallets,
              disk_wallets, sign_i, sigsStart, log, result>>
vars == <<clsVars, signVars>>

\* WalletManager.assets, lines 79-81
DefaultAssets == [a \in {AssetTBTC} |-> "tBTC"]

\* two stored wallets: the first holds private keys, the second is watch-only
StoredWallets ==
    <<[name |-> "w1", has_private_keys |-> TRUE, gaps |-> <<20, 20>>],
      [name |-> "w2", has_private_keys |-> FALSE, gaps |-> <<20, 20>>]>>

\* the state of a manager that is handling no request
Idle ==
    /\ pc = "idle"
    /\ encoding = BASE64_STREAM
    /\ psbt = NoPsbt
    /\ psbt0 = NoPsbt
    /\ sighash = NoSighash
    /\ owns = <<>>
    /\ spend = <<>>
    /\ unknown_assets = <<>>
    /\ label_i = 0
    /\ assets = DefaultAssets
    /\ disk_assets = DefaultAssets
    /\ wallets = StoredWallets
    /\ disk_wallets = [i \in 1..Len(StoredWallets) |-> StoredWallets[i].gaps]
    /\ sign_i = 0
    /\ sigsStart = 0
    /\ log = <<>>
    /\ result = "pending"
    /\ uid = "id1"
    /\ dirs = <<>>
    /\ files = <<>>
    /\ meta = <<>>

(***************************************************************************)
(* The classifier on its own: can_process / parse_stream on a fresh        *)
(* stream, then once more on the same stream re-read from position 0.      *)
(***************************************************************************)
InitClassify ==
    /\ network \in Networks
    /\ stream \in StreamSet
    /\ pos = 0
    /\ phase = "new"
    /\ cmd = NoCmd
    /\ cmd2 = NoCmd
    /\ tempdir = {}
    /\ Idle

Classify ==
    /\ phase = "new"
    /\ LET r == parse_stream(stream, pos, network)
       IN  cmd' = r.cmd /\ pos' = r.pos
    /\ phase' = "classified"
    /\ UNCHANGED <<network, stream, cmd2, signVars, storeVars>>

\* stream.seek(0), then parse_stream again
Reclassify ==
    /\ phase = "classified"
    /\ LET r == parse_stream(stream, 0, network)
       IN  cmd2' = r.cmd /\ pos' = r.pos
    /\ phase' = "reclassified"
    /\ UNCHANGED <<network, stream, cmd, signVars, storeVars>>

NextClassify == Classify \/ Reclassify

SpecClassify == InitClassify /\ [][NextClassify]_vars


(***************************************************************************)
(* process_host_command and sign_psbt, lines 195-236 and 292-453.  The     *)
(* coroutine is cut at its awaits: an action runs the code up to the next  *)
(* show_screen, and the action that follows draws the user's answer.       *)
(***************************************************************************)
Ev(e, who, sh) == [ev |-> e, who |-> who, sh |-> sh]
Shown(e) == Ev(e, "", -1)
\* what show_screen hands back for screen e
Answer(e, yes) == Ev(e, IF yes THEN "accept" ELSE "decline", -1)

\* an exception leaves process_host_command; td is what tempdir holds then
Raise(err, td) == pc' = "done" /\ result' = err /\ tempdir' = td

\* sign_psbt returns val: lines 204-210, and lines 226-236 for SIGN_BCUR
\* where the scratch area is deleted once sign_psbt has returned
Return(val) ==
    /\ pc' = "done"
    /\ result' = val
    /\ tempdir' = IF cmd = SIGN_BCUR THEN {} ELSE tempdir

Goto(label) == pc' = label /\ result' = result /\ tempdir' = tempdir

\* the streams a host sends to have a transaction signed, and one that is
\* no command at all
SignStreams ==
    {B64Psbt, B64Pset, BSign \o BSpace \o B64Psbt, BSign \o BSpace \o PSBT_MAGIC,
     BSign \o BSpace \o PSET_MAGIC, BUrBytes \o BText, BText}

\* lines 196-202 and 211-224, 289-290
Submit ==
    /\ pc = "idle"
    /\ \E s \in SignStreams, decodes \in BOOLEAN :
        LET r == parse_stream(s, 0, network)
        IN  /\ stream' = s
            /\ cmd' = r.cmd
            /\ IF r.cmd = SIGN_PSBT
               THEN /\ encoding' =
                          IF ReadAt(s, r.pos, Len(PSBT_MAGIC)) \in {PSBT_MAGIC, PSET_MAGIC}
                          THEN RAW_STREAM ELSE BASE64_STREAM
                    /\ pos' = r.pos
                    /\ decodes
                    /\ pc' = "decode" /\ result' = result /\ tempdir' = {}
               ELSE IF r.cmd = SIGN_BCUR
               THEN /\ encoding' = RAW_STREAM
                    /\ pos' = Len(s)
                    /\ IF decodes
                       THEN pc' = "decode" /\ result' = result /\ tempdir' = {"raw"}
                       ELSE Raise("MalformedRequest", {"raw"})
               ELSE /\ encoding' = encoding
                    /\ pos' = r.pos
                    /\ decodes
                    /\ Raise("UnknownCommand", {})
    /\ UNCHANGED <<network, phase, cmd2, storeVars, psbt, psbt0, sighash, owns, spend,
                   unknown_assets, label_i, assets, disk_assets, wallets,
                   disk_wallets, sign_i, sigsStart, log>>

\* the magic the container starts with, <<>> when the leading bytes of the
\* request do not show it (the streamed envelope)
VisibleMagic ==
    IF cmd = SIGN_BCUR THEN <<>>
    ELSE IF encoding = RAW_STREAM THEN ReadAt(stream, pos, Len(PSBT_MAGIC))
    ELSE Take(a2b_base64(ReadAt(stream, pos, PeekLen)).bytes, Len(PSBT_MAGIC))

DecodeOutcomes ==
    IF cmd = SIGN_BCUR THEN {"ok", "malformed", "wrongmagic"}
    ELSE IF VisibleMagic = (IF is_liquid(network) THEN PSET_MAGIC ELSE PSBT_MAGIC)
    THEN {"ok", "malformed"}
    ELSE {"wrongmagic"}

\* ScanInputs with the check of line 318 made on the first input only
RECURSIVE ScanFirstInputOnly(_, _, _, _)
ScanFirstInputOnly(p, i, sh, custom) ==
    IF i > Len(p.inputs) THEN [missing |-> FALSE, custom |-> custom]
    ELSE IF i = 1 /\ ~p.inputs[i].utxo THEN [missing |-> TRUE, custom |-> custom]
    ELSE IF p.inputs[i].sighash # 0 /\ p.inputs[i].sighash # sh
    THEN ScanFirstInputOnly(p, i + 1, sh, Append(custom, i))
    ELSE ScanFirstInputOnly(p, i + 1, sh, custom)

\* lines 316-321: the first input without previous-output data raises, the
\* inputs before it have their custom sighash collected
RECURSIVE ScanInputs(_, _, _, _)
ScanInputs(p, i, sh, custom) ==
    IF i > Len(p.inputs) THEN [missing |-> FALSE, custom |-> custom]
    ELSE IF ~p.inputs[i].utxo THEN [missing |-> TRUE, custom |-> custom]
    ELSE IF p.inputs[i].sighash # 0 /\ p.inputs[i].sighash # sh
    THEN ScanInputs(p, i + 1, sh, Append(custom, i))
    ELSE ScanInputs(p, i + 1, sh, custom)

custom_sighashes == ScanInputs(psbt, 1, DefaultSighash(network), <<>>).custom

\* lines 314-330: psbt.verify(), the scan of the inputs and the custom
\* sighash prompt, for the structure p just decoded; td is what tempdir holds
Validate(p, verifies, td) ==
    LET scan == ScanInputs(p, 1, DefaultSighash(network), <<>>)
    IN  IF ~verifies
        THEN Raise("MalformedRequest", td) /\ log' = log
        ELSE IF scan.missing
        THEN Raise("MissingPreviousOutput", td) /\ log' = log
        ELSE IF Len(scan.custom) > 0
        THEN IF \E k \in 1..Len(scan.custom) :
                    p.inputs[scan.custom[k]].sighash \notin SighashNamed
             THEN Raise("KeyError", td) /\ log' = log
             ELSE /\ pc' = "prompt_sighash" /\ result' = result /\ tempdir' = td
                  /\ log' = Append(log, Shown("prompt:sighash"))
        ELSE /\ pc' = "match" /\ result' = result /\ tempdir' = td
             /\ log' = log

\* lines 293-330: the container is read and checked
Decode ==
    /\ pc = "decode"
    /\ sighash' = DefaultSighash(network)
    /\ LET written == IF encoding = BASE64_STREAM THEN tempdir \cup {"raw"}
                      ELSE tempdir
           cleaned == IF encoding = BASE64_STREAM THEN {} ELSE tempdir
       IN  \E outcome \in DecodeOutcomes, verifies \in BOOLEAN :
            IF outcome = "malformed"
            THEN verifies /\ Raise("MalformedRequest", written)
                 /\ UNCHANGED <<psbt, psbt0, log>>
            ELSE IF outcome = "wrongmagic"
            THEN verifies /\ Raise("WrongNetwork", written)
                 /\ UNCHANGED <<psbt, psbt0, log>>
            ELSE \E p \in PsbtSet(network) :
                    /\ psbt' = p
                    /\ psbt0' = p
                    /\ Validate(p, verifies, cleaned)
    /\ stream' = <<>>
    /\ pos' = 0
    /\ UNCHANGED <<network, phase, cmd, cmd2, storeVars, encoding, owns, spend,
                   unknown_assets, label_i, assets, disk_assets, wallets,
                   disk_wallets, sign_i, sigsStart>>

\* SighashChoice with the restriction lifted whatever the answer
SighashChoiceLifted(confirm, sh) == NoSighash

\* NothingToSign with the return of line 336 never taken
NothingToSignNever(custom, p) == FALSE

\* lines 331-332: "Sign anyway" lifts the restriction
SighashChoice(confirm, sh) == IF confirm THEN NoSighash ELSE sh

\* line 334: every input is custom, nothing is left to sign
NothingToSign(custom, p) == Len(custom) = Len(p.inputs)

\* lines 331-336
AnswerSighash ==
    /\ pc = "prompt_sighash"
    /\ \E confirm \in BOOLEAN :
        /\ sighash' = SighashChoice(confirm, sighash)
        /\ log' = Append(log, Answer("prompt:sighash", confirm))
        /\ IF ~confirm /\ NothingToSign(custom_sighashes, psbt)
           THEN Return("none")
           ELSE Goto("match")
    /\ UNCHANGED <<clsVars, encoding, psbt, psbt0, owns, spend,
                   unknown_assets, label_i, assets, disk_assets, wallets,
                   disk_wallets, sign_i, sigsStart>>

\* lines 361-380: the unknown-wallet prompt, else the transaction screen
AfterAssets(ws, lg) ==
    IF \E k \in 1..Len(ws) : ws[k].w = 0
    THEN Goto("prompt_unknown") /\ log' = Append(lg, Shown("prompt:unknown"))
    ELSE Goto("tx_screen") /\ log' = Append(lg, Shown("screen:tx"))

\* what Wallet.owns answers for an input: no wallet owns it, or one does
OwnerSets(nwallets) == {{}} \cup {{w} : w \in 1..nwallets}

\* lines 337-344: the first parse_psbt; Wallet.owns answers for every input
Match ==
    /\ pc = "match"
    /\ \E o \in [1..Len(psbt.inputs) -> OwnerSets(Len(wallets))] :
        LET r == parse_psbt(psbt, o, Len(wallets), DOMAIN assets, network)
        IN  /\ owns' = o
            /\ IF r.raised # "no"
               THEN Raise(r.raised, tempdir)
                    /\ UNCHANGED <<spend, unknown_assets, log>>
               ELSE /\ spend' = r.wallets
                    /\ unknown_assets' = r.unknown_assets
                    /\ IF Len(r.unknown_assets) > 0
                       THEN Goto("prompt_label")
                            /\ log' = Append(log, Shown("prompt:label"))
                       ELSE AfterAssets(r.wallets, log)
    /\ UNCHANGED <<clsVars, encoding, psbt, psbt0, sighash, label_i, assets,
                   disk_assets, wallets, disk_wallets, sign_i, sigsStart>>

\* line 345: the answer to "Do you want to label them?"
AnswerLabelPrompt ==
    /\ pc = "prompt_label"
    /\ \E yes \in BOOLEAN :
        IF yes
        THEN /\ label_i' = 1
             /\ Goto("label_input")
             /\ log' = log \o <<Answer("prompt:label", TRUE), Shown("input:label")>>
        ELSE /\ label_i' = label_i
             /\ AfterAssets(spend, Append(log, Answer("prompt:label", FALSE)))
    /\ UNCHANGED <<clsVars, encoding, psbt, psbt0, sighash, owns, spend,
                   unknown_assets, assets, disk_assets, wallets, disk_wallets,
                   sign_i, sigsStart>>

\* Cancelled with the test of line 353 left out
CancelledNever(lbl) == FALSE

\* line 353: the input screen hands back None when the user cancels it
Cancelled(lbl) == lbl = "cancel"

\* lines 346-358: one pass of the labelling loop, and what follows the loop
AnswerLabel ==
    /\ pc = "label_input"
    /\ \E lbl \in {"cancel", "LBL"} :
        LET lg == Append(log, Answer("input:label", lbl # "cancel"))
        IN
        IF Cancelled(lbl)
        THEN Return("none") /\ log' = lg
             /\ UNCHANGED <<assets, disk_assets, label_i, spend, unknown_assets>>
        ELSE LET labelled == (unknown_assets[label_i] :> lbl) @@ assets
             IN  /\ assets' = labelled
                 /\ IF label_i < Len(unknown_assets)
                    THEN /\ label_i' = label_i + 1
                         /\ Goto("label_input")
                         /\ log' = Append(lg, Shown("input:label"))
                         /\ UNCHANGED <<disk_assets, spend, unknown_assets>>
                    ELSE LET r == parse_psbt(psbt, owns, Len(wallets),
                                             DOMAIN labelled, network)
                         IN  /\ label_i' = label_i
                             /\ disk_assets' = labelled
                             /\ IF r.raised # "no"
                                THEN Raise(r.raised, tempdir) /\ log' = lg
                                     /\ UNCHANGED <<spend, unknown_assets>>
                                ELSE /\ spend' = r.wallets
                                     /\ unknown_assets' = r.unknown_assets
                                     /\ AfterAssets(r.wallets, lg)
    /\ UNCHANGED <<clsVars, encoding, psbt, psbt0, sighash, owns, wallets,
                   disk_wallets, sign_i, sigsStart>>

\* Proceeds with the answer of line 369 ignored
ProceedsAlways(proceed) == TRUE

\* line 370
Proceeds(proceed) == proceed

\* lines 369-380
AnswerUnknown ==
    /\ pc = "prompt_unknown"
    /\ \E proceed \in BOOLEAN :
        LET lg == Append(log, Answer("prompt:unknown", proceed))
        IN  IF ~Proceeds(proceed)
            THEN Return("none") /\ log' = lg
            ELSE Goto("tx_screen") /\ log' = Append(lg, Shown("screen:tx"))
    /\ UNCHANGED <<clsVars, encoding, psbt, psbt0, sighash, owns, spend,
                   unknown_assets, label_i, assets, disk_assets, wallets,
                   disk_wallets, sign_i, sigsStart>>

\* lines 387-419: an output without the nonce field reads the local proof,
\* which is bound only between lines 409 and 418, so an output with a
\* range_proof raises there; an output with the nonce has its range proof
\* signed (the nonce commitment is taken to be absent or matching)
RECURSIVE FinalizeOutputs(_, _, _)
FinalizeOutputs(outs, i, lg) ==
    IF i > Len(outs) THEN [raised |-> "no", log |-> lg]
    ELSE IF ~outs[i].nonce
    THEN IF outs[i].range_proof
         THEN [raised |-> "NameError", log |-> lg]
         ELSE FinalizeOutputs(outs, i + 1, lg)
    ELSE FinalizeOutputs(outs, i + 1, Append(lg, Ev("rangeproof_sign", ToString(i), -1)))

\* Accepted with the answer of line 380 ignored
AcceptedAlways(res) == TRUE

\* line 381
Accepted(res) == res

\* lines 422-425
EnterSigning(p) ==
    /\ sigsStart' = SigCount(p, 1)
    /\ sign_i' = 1
    /\ Goto("wallets")

\* lines 380-425: the answer to the transaction screen, and on a
\* confidential network the proofs
AnswerTx ==
    /\ pc = "tx_screen"
    /\ \E res \in BOOLEAN :
        LET lg == Append(log, Answer("screen:tx", res))
        IN
        IF ~Accepted(res)
        THEN Return("none") /\ log' = lg /\ UNCHANGED <<psbt, sigsStart, sign_i>>
        ELSE IF is_liquid(network)
        THEN \E outs \in [1..Len(psbt.outputs) -> BlindingFields] :
             LET f == FinalizeOutputs(outs, 1, lg)
             IN  /\ log' = f.log
                 /\ IF f.raised # "no"
                    THEN Raise(f.raised, tempdir)
                         /\ UNCHANGED <<psbt, sigsStart, sign_i>>
                    ELSE /\ psbt' = [psbt EXCEPT !.digest = TRUE]
                         /\ EnterSigning(psbt')
        ELSE EnterSigning(psbt) /\ log' = lg /\ UNCHANGED psbt
    /\ UNCHANGED <<clsVars, encoding, psbt0, sighash, owns, spend,
                   unknown_assets, label_i, assets, disk_assets, wallets,
                   disk_wallets>>

(***************************************************************************)
(* The signing collaborators.  A signing call given a sighash leaves out   *)
(* the inputs that declare another one; among the inputs left, a wallet    *)
(* signs the ones it owns or none, and the keystore the ones its key       *)
(* matches.  update_gaps may advance a gap bound.                          *)
(***************************************************************************)
Eligible(inp, sh) == sh = NoSighash \/ inp.sighash = 0 \/ inp.sighash = sh

Signable(p, sh) == {i \in 1..Len(p.inputs) : Eligible(p.inputs[i], sh)}

\* the inputs the keystore's key is found to match, among the inputs E it
\* may sign: none, one of them, or all
KeystoreChoices(E) == {{}, E} \cup {{i} : i \in E}

SignWith(p, S, key) ==
    [p EXCEPT !.inputs = [i \in 1..Len(p.inputs) |->
        IF i \in S THEN [p.inputs[i] EXCEPT !.sigs = @ \cup {key}]
        ELSE p.inputs[i]]]

update_gaps(gaps, advance) ==
    IF advance THEN <<gaps[1] + 1, gaps[2]>> ELSE gaps

\* WalletSigns with the test of line 433 left out
WalletSignsAlways(w) == TRUE

\* line 433
WalletSigns(w) == w.has_private_keys

\* lines 426-434: one pass of the loop over the spend summary
SignWallet ==
    /\ pc = "wallets"
    /\ sign_i <= Len(spend)
    /\ LET w == spend[sign_i].w
       IN  IF w = 0
           THEN UNCHANGED <<psbt, wallets, disk_wallets, log>>
           ELSE \E advance \in BOOLEAN,
                   S \in {{}, {i \in Signable(psbt, sighash) : w \in owns[i]}} :
                LET gaps == update_gaps(wallets[w].gaps, advance)
                    steps == log \o <<Ev("update_gaps", wallets[w].name, -1),
                                      Ev("save", wallets[w].name, -1),
                                      Ev("fill_psbt", wallets[w].name, -1)>>
                IN  /\ wallets' = [wallets EXCEPT ![w].gaps = gaps]
                    /\ disk_wallets' = [disk_wallets EXCEPT ![w] = gaps]
                    /\ IF WalletSigns(wallets[w])
                       THEN /\ psbt' = SignWith(psbt, S, wallets[w].name)
                            /\ log' = Append(steps,
                                             Ev("sign_psbt", wallets[w].name, sighash))
                       ELSE /\ S = {}
                            /\ psbt' = psbt
                            /\ log' = steps
    /\ sign_i' = sign_i + 1
    /\ Goto("wallets")
    /\ UNCHANGED <<clsVars, encoding, psbt0, sighash, owns, spend,
                   unknown_assets, label_i, assets, disk_assets, sigsStart>>

\* SigningOutcome with the comparison of line 444 left out
SigningOutcomeUnchecked(sigsEnd, start) == "signed"

\* lines 444-453: an unchanged count is an error, else the result is handed
\* back
SigningOutcome(sigsEnd, start) ==
    IF sigsEnd = start THEN "NoSignaturesAdded" ELSE "signed"

\* lines 435-453: the keystore signs, the signatures are counted again
KeystoreSign ==
    /\ pc = "wallets"
    /\ sign_i > Len(spend)
    /\ \E S \in KeystoreChoices(Signable(psbt, sighash)) :
        LET signed == SignWith(psbt, S, KeystoreKey)
        IN  /\ psbt' = signed
            /\ IF SigningOutcome(SigCount(signed, 1), sigsStart) = "signed"
               THEN Return("signed")
               ELSE Raise("NoSignaturesAdded", tempdir)
    /\ log' = Append(log, Ev("sign_psbt", "keystore", sighash))
    /\ UNCHANGED <<clsVars, encoding, psbt0, sighash, owns, spend,
                   unknown_assets, label_i, assets, disk_assets, wallets,
                   disk_wallets, sign_i, sigsStart>>

(***************************************************************************)
(* One request to an activated manager.  The scratch area may hold a file  *)
(* an earlier request left behind.                                         *)
(***************************************************************************)
Init ==
    /\ network \in Networks
    /\ stream = <<>>
    /\ pos = 0
    /\ phase = "new"
    /\ cmd = NoCmd
    /\ cmd2 = NoCmd
    /\ tempdir \in {{}, {"raw"}}
    /\ Idle

Next ==
    \/ Submit
    \/ Decode
    \/ AnswerSighash
    \/ Match
    \/ AnswerLabelPrompt
    \/ AnswerLabel
    \/ AnswerUnknown
    \/ AnswerTx
    \/ SignWallet
    \/ KeystoreSign

Spec == Init /\ [][Next]_vars

(***************************************************************************)
(* The asset registry: WalletManager.assets, assets_json, save_assets and  *)
(* load_assets (lines 79-81 and 455-476), the ADD_ASSET and DUMP_ASSETS    *)
(* branches of process_host_command (lines 276-290) and the part of init   *)
(* that loads the labels (line 107).  An asset id is two bytes long here;  *)
(* hex text is a sequence of character codes.  The JSON text is held as    *)
(* the object it encodes, hex text -> label.                               *)
(***************************************************************************)
\* number of host requests made to one manager
MaxRequests == 2

\* unhexlify: a digit's value, for either case of a..f; -1 for no digit
HexVal(c) ==
    IF c \in 48..57 THEN c - 48
    ELSE IF c \in 97..102 THEN c - 87
    ELSE IF c \in 65..70 THEN c - 55
    ELSE -1

\* hexlify: the digit of a value, in lower case
HexChar(v) == IF v < 10 THEN v + 48 ELSE v + 87

ValidHex(h) ==
    Len(h) % 2 = 0 /\ \A i \in 1..Len(h) : HexVal(h[i]) >= 0

unhexlify(h) ==
    [i \in 1..(Len(h) \div 2) |-> 16 * HexVal(h[2 * i - 1]) + HexVal(h[2 * i])]

hexlify(b) ==
    [i \in 1..(2 * Len(b)) |->
        IF i % 2 = 1 THEN HexChar(b[(i + 1) \div 2] \div 16)
        ELSE HexChar(b[i \div 2] % 16)]

reversed(b) == [i \in 1..Len(b) |-> b[Len(b) + 1 - i]]

\* line 283 and line 476: the internal key of a hex id
AssetKey(h) == reversed(unhexlify(h))

\* lines 455-460
assets_json(a) ==
    [h \in {hexlify(reversed(k)) : k \in DOMAIN a} |->
        a[CHOOSE k \in DOMAIN a : hexlify(reversed(k)) = h]]

\* the class attribute of lines 79-81, its id shortened to two bytes
BuiltinKey == AssetKey(<<50, 51, 49, 56>>)     \* "2318"
BuiltinAssets == (BuiltinKey :> "tBTC")

\* lines 463-466: where save_assets writes
SavePath(id, net) == <<"uid", id, net>>
\* lines 469-472: where load_assets reads
LoadPath(id, net) == <<"", id, net>>

\* lines 462-466
save_assets(fs, a, id, net) ==
    (SavePath(id, net) :> assets_json(a)) @@ fs

\* lines 468-476: the labels of the file are put into the map that is there
load_assets(fs, a, id, net) ==
    IF LoadPath(id, net) \in DOMAIN fs
    THEN LET js == fs[LoadPath(id, net)]
         IN  [k \in DOMAIN a \cup {AssetKey(h) : h \in DOMAIN js} |->
                 IF \E h \in DOMAIN js : AssetKey(h) = k
                 THEN js[CHOOSE h \in DOMAIN js : AssetKey(h) = k]
                 ELSE a[k]]
    ELSE a

\* str.split(" ") of line 277, on the bytes after the prefix
RECURSIVE SplitSpace(_)
SplitSpace(b) ==
    IF ~Contains(b, BSpace) THEN <<b>>
    ELSE <<SubSeq(b, 1, FirstSpace(b) - 1)>>
            \o SplitSpace(SubSeq(b, FirstSpace(b) + 1, Len(b)))

Uids == {"id1", "id2"}

\* hex ids a host sends: "1aa1", the same in upper case, its byte-reversed
\* form, one that reads the same reversed, and one that is no hex text
HexIds == {<<49, 97, 97, 49>>, <<49, 65, 65, 49>>, <<97, 49, 49, 97>>,
           <<49, 97, 49, 97>>, <<49, 97, 49>>}
Labels == {<<76>>, <<77>>}                      \* "L", "M"

AssetStreams ==
    {BAddasset \o BSpace \o h \o BSpace \o l : h \in HexIds, l \in Labels}
    \cup {BAddasset \o BSpace \o <<49, 97, 97, 49>>,
          BDumpassets \o BSpace,
          BText}

InitAssets ==
    /\ network = "main"
    /\ uid = "id1"
    /\ stream = <<>>
    /\ pos = 0
    /\ phase = "new"
    /\ cmd = NoCmd
    /\ cmd2 = NoCmd
    /\ tempdir = {}
    /\ pc = "off"
    /\ encoding = BASE64_STREAM
    /\ psbt = NoPsbt
    /\ psbt0 = NoPsbt
    /\ sighash = NoSighash
    /\ owns = <<>>
    /\ spend = <<>>
    /\ unknown_assets = <<>>
    /\ label_i = 0
    /\ assets = BuiltinAssets
    /\ disk_assets = <<>>
    /\ wallets = <<>>
    /\ disk_wallets = <<>>
    /\ sign_i = 0
    /\ sigsStart = 0
    /\ log = <<>>
    /\ result = "pending"
    /\ dirs = <<>>
    /\ files = <<>>
    /\ meta = <<>>

assetFrame == <<phase, cmd2, tempdir, encoding, psbt, psbt0, sighash, owns,
                spend, unknown_assets, label_i, disk_assets, wallets,
                disk_wallets, sign_i, sigsStart, dirs>>

\* lines 89-107: init for an identity and a network; the labels of the
\* class attribute stay and the file's are put on top
Activate ==
    /\ pc \in {"off", "activated", "done"}
    /\ \E id \in Uids, net \in Networks :
        /\ uid' = id
        /\ network' = net
        /\ assets' = load_assets(files, assets, id, net)
    /\ pc' = "activated"
    /\ result' = "pending"
    /\ UNCHANGED <<stream, pos, cmd, log, files, meta, assetFrame>>

\* the device is restarted: the class attribute is the built-in map again
Restart ==
    /\ pc \in {"activated", "done"}
    /\ pc' = "off"
    /\ assets' = BuiltinAssets
    /\ result' = "pending"
    /\ UNCHANGED <<network, uid, stream, pos, cmd, log, files, meta, assetFrame>>

\* lines 196-197 and 276-290: up to the import prompt, or to the end
HostAsset ==
    /\ pc \in {"activated", "done"}
    /\ Len(log) < MaxRequests
    /\ \E s \in AssetStreams :
        LET r == parse_stream(s, 0, network)
            arr == SplitSpace(SubSeq(s, r.pos + 1, Len(s)))
        IN  /\ stream' = s
            /\ cmd' = r.cmd
            /\ pos' = Len(s)
            /\ IF r.cmd = ADD_ASSET
               THEN IF Len(arr) # 2
                    THEN /\ pc' = "done" /\ result' = "MalformedRequest"
                         /\ log' = Append(log, Ev("failed", <<>>, <<>>))
                         /\ meta' = <<>>
                    ELSE /\ pc' = "prompt_asset" /\ result' = "pending"
                         /\ log' = log
                         /\ meta' = arr
               ELSE IF r.cmd = DUMP_ASSETS
               THEN /\ pc' = "done" /\ result' = "dumped"
                    /\ log' = Append(log, Ev("dump", <<>>, <<>>))
                    /\ meta' = assets_json(assets)
               ELSE /\ pc' = "done" /\ result' = "UnknownCommand"
                    /\ log' = Append(log, Ev("failed", <<>>, <<>>))
                    /\ meta' = <<>>
    /\ UNCHANGED <<network, uid, assets, files, assetFrame>>

\* lines 281-286: the answer to "Import asset?"
AnswerAsset ==
    /\ pc = "prompt_asset"
    /\ pc' = "done"
    /\ \E yes \in BOOLEAN :
        IF ~yes
        THEN /\ result' = "success"
             /\ log' = Append(log, Ev("declined", meta[1], meta[2]))
             /\ UNCHANGED <<assets, files>>
        ELSE IF ~ValidHex(meta[1])
        THEN /\ result' = "ValueError"
             /\ log' = Append(log, Ev("failed", <<>>, <<>>))
             /\ UNCHANGED <<assets, files>>
        ELSE /\ result' = "success"
             /\ log' = Append(log, Ev("import", meta[1], meta[2]))
             /\ assets' = (AssetKey(meta[1]) :> meta[2]) @@ assets
             /\ files' = save_assets(files, assets', uid, network)
    /\ UNCHANGED <<network, uid, stream, pos, cmd, meta, assetFrame>>

NextAssets == Activate \/ Restart \/ HostAsset \/ AnswerAsset

SpecAssets == InitAssets /\ [][NextAssets]_vars

(***************************************************************************)
(* The wallet store of one identity and one network: init, load_wallets,   *)
(* load_wallet, create_default_wallet, parse_wallet, add_wallet and        *)
(* delete_wallet (lines 89-107 and 534-618) and the ADD_WALLET branch of   *)
(* process_host_command (lines 237-244).  dirs maps the number of a folder *)
(* under self.path to the descriptor stored in it, or to Corrupt when      *)
(* Wallet.from_path fails on it.  A wallet in memory is its descriptor and *)
(* the slot of its folder, NoSlot when it has none.                        *)
(***************************************************************************)
\* highest folder number add_wallet is let to reach
MaxSlot == 2

Corrupt == "corrupt"
NoSlot == -1
DefaultDesc == "wpkh(default)"
Descs == {DefaultDesc, "wsh(X)", "wsh(Y)"}
\* what a host sends as a descriptor: three that parse, one that does not,
\* one whose keys are of another network
HostDescs == Descs \cup {"unparsable", "wsh(othernet)"}

Parses(d) == d # "unparsable"
check_network(d) == d # "wsh(othernet)"

W(d, slot) == [desc |-> d, slot |-> slot]

Max(S) == CHOOSE x \in S : \A y \in S : y <= x
RECURSIVE Sorted(_)
Sorted(S) ==
    IF S = {} THEN <<>>
    ELSE LET m == CHOOSE x \in S : \A y \in S : x <= y
         IN  <<m>> \o Sorted(S \ {m})

Without(d, slot) == [x \in DOMAIN d \ {slot} |-> d[x]]

\* lines 551-560 inside the comprehension of line 547: the folders are
\* loaded in the order of their numbers; the first that fails is deleted
\* and ends the loading
RECURSIVE LoadFrom(_, _, _)
LoadFrom(d, ids, acc) ==
    IF ids = <<>> THEN [raised |-> FALSE, wallets |-> acc, dirs |-> d]
    ELSE IF d[Head(ids)] = Corrupt
    THEN [raised |-> TRUE, wallets |-> acc, dirs |-> Without(d, Head(ids))]
    ELSE LoadFrom(d, Tail(ids), Append(acc, W(d[Head(ids)], Head(ids))))

\* lines 534-549: anything raised gives the empty list
load_wallets(d) ==
    LET r == LoadFrom(d, Sorted(DOMAIN d), <<>>)
    IN  [wallets |-> IF r.raised THEN <<>> ELSE r.wallets, dirs |-> r.dirs]

\* lines 562-584: the default wallet is saved at path
create_default_wallet(d, slot) ==
    [wallet |-> W(DefaultDesc, slot), dirs |-> (slot :> DefaultDesc) @@ d]

\* lines 586-599
parse_wallet(d, ws) ==
    IF ~Parses(d) THEN "MalformedRequest"
    ELSE IF \E i \in 1..Len(ws) : ws[i].desc = d THEN "WalletAlreadyExists"
    ELSE IF ~check_network(d) THEN "WalletNetworkMismatch"
    ELSE "ok"

InitStore ==
    /\ network = "main"
    /\ uid = "id1"
    /\ stream = <<>>
    /\ pos = 0
    /\ phase = "new"
    /\ cmd = NoCmd
    /\ cmd2 = NoCmd
    /\ tempdir = {}
    /\ pc = "off"
    /\ encoding = BASE64_STREAM
    /\ psbt = NoPsbt
    /\ psbt0 = NoPsbt
    /\ sighash = NoSighash
    /\ owns = <<>>
    /\ spend = <<>>
    /\ unknown_assets = <<>>
    /\ label_i = 0
    /\ assets = BuiltinAssets
    /\ disk_assets = <<>>
    /\ wallets = <<>>
    /\ disk_wallets = <<>>
    /\ sign_i = 0
    /\ sigsStart = 0
    /\ log = <<>>
    /\ result = "pending"
    /\ dirs = <<>>
    /\ files = <<>>
    /\ meta = <<>>

storeFrame == <<network, uid, stream, pos, phase, cmd2, tempdir, encoding,
                psbt, psbt0, sighash, owns, spend, unknown_assets, label_i,
                assets, disk_assets, disk_wallets, sign_i, sigsStart, log,
                files>>

\* what the store was when the operation began
Before(op, d) == [op |-> op, desc |-> d, dirs |-> dirs, wallets |-> wallets]

\* lines 89-107: init
ActivateStore ==
    /\ pc = "off"
    /\ LET l == load_wallets(dirs)
           c == create_default_wallet(l.dirs, 0)
       IN  IF Len(l.wallets) = 0
           THEN /\ wallets' = <<c.wallet>>
                /\ dirs' = c.dirs
                /\ result' = "created"
           ELSE /\ wallets' = l.wallets
                /\ dirs' = l.dirs
                /\ result' = "loaded"
    /\ pc' = "activated"
    /\ meta' = Before("init", "")
    /\ cmd' = NoCmd
    /\ UNCHANGED storeFrame

\* the device is switched off
RestartStore ==
    /\ pc \in {"activated", "done"}
    /\ pc' = "off"
    /\ wallets' = <<>>
    /\ result' = "pending"
    /\ meta' = <<>>
    /\ cmd' = NoCmd
    /\ UNCHANGED <<dirs, storeFrame>>

\* while the device is off the content of a wallet folder becomes unreadable
Damage ==
    /\ pc = "off"
    /\ \E slot \in DOMAIN dirs :
        /\ dirs[slot] # Corrupt
        /\ dirs' = [dirs EXCEPT ![slot] = Corrupt]
    /\ UNCHANGED <<pc, wallets, result, meta, cmd, storeFrame>>

\* lines 237-241 and 479-482: parse_wallet, and which screen comes first
HostAddWallet ==
    /\ pc \in {"activated", "done"}
    /\ cmd' = ADD_WALLET
    /\ \E d \in HostDescs, mine \in BOOLEAN :
        /\ meta' = Before("add", d)
        /\ IF parse_wallet(d, wallets) # "ok"
           THEN pc' = "done" /\ result' = parse_wallet(d, wallets)
           ELSE /\ pc' = IF mine THEN "confirm_wallet" ELSE "warn_wallet"
                /\ result' = "pending"
    /\ UNCHANGED <<wallets, dirs, storeFrame>>

\* lines 483-488: the answer to "None of the keys belong to the device"
AnswerWarning ==
    /\ pc = "warn_wallet"
    /\ \E yes \in BOOLEAN :
        IF yes THEN pc' = "confirm_wallet" /\ result' = "pending"
        ELSE pc' = "done" /\ result' = "declined"
    /\ UNCHANGED <<wallets, dirs, meta, cmd, storeFrame>>

\* lines 601-612
add_wallet(d, ws, desc) ==
    IF DOMAIN d = {}
    THEN [raised |-> TRUE, wallets |-> Append(ws, W(desc, NoSlot)), dirs |-> d]
    ELSE [raised |-> FALSE,
          wallets |-> Append(ws, W(desc, Max(DOMAIN d) + 1)),
          dirs |-> ((Max(DOMAIN d) + 1) :> desc) @@ d]

\* lines 489 and 242-244: the answer to the wallet screen, then add_wallet
AnswerWallet ==
    /\ pc = "confirm_wallet"
    /\ pc' = "done"
    /\ \E yes \in BOOLEAN :
        IF ~yes
        THEN result' = "declined" /\ UNCHANGED <<wallets, dirs>>
        ELSE LET a == add_wallet(dirs, wallets, meta.desc)
             IN  /\ DOMAIN dirs # {} => Max(DOMAIN dirs) < MaxSlot
                 /\ wallets' = a.wallets
                 /\ dirs' = a.dirs
                 /\ result' = IF a.raised THEN "ValueError" ELSE "added"
    /\ UNCHANGED <<meta, cmd, storeFrame>>

\* Wallet.wipe of line 618
wipe(d, w) == IF w.slot \in DOMAIN d THEN Without(d, w.slot) ELSE d

\* lines 614-618, for a wallet of the list or one that is not in it
DeleteWallet ==
    /\ pc \in {"activated", "done"}
    /\ pc' = "done"
    /\ cmd' = NoCmd
    /\ meta' = Before("delete", "")
    /\ \E w \in {wallets[i] : i \in 1..Len(wallets)}
                \cup {W(d, NoSlot) : d \in Descs} :
        IF \A i \in 1..Len(wallets) : wallets[i] # w
        THEN /\ result' = "WalletNotFound"
             /\ UNCHANGED <<wallets, dirs>>
        ELSE LET i == CHOOSE j \in 1..Len(wallets) : wallets[j] = w
             IN  /\ wallets' = SubSeq(wallets, 1, i - 1)
                                 \o SubSeq(wallets, i + 1, Len(wallets))
                 /\ dirs' = wipe(dirs, w)
                 /\ result' = "deleted"
    /\ UNCHANGED storeFrame

NextStore ==
    \/ ActivateStore
    \/ RestartStore
    \/ Damage
    \/ HostAddWallet
    \/ AnswerWarning
    \/ AnswerWallet
    \/ DeleteWallet

SpecStore == InitStore /\ [][NextStore]_vars

(***************************************************************************)
(* Address derivation: the DERIVE_ADDRESS branch of process_host_command   *)
(* (lines 260-275), showaddr (lines 491-532) and the paths branch of       *)
(* find_wallet_from_address (lines 620-645).  An address is the script     *)
(* template together with what it was built from.                          *)
(***************************************************************************)
\* number of comma-separated paths in a request
MaxPaths == 2

ScriptTypes == {"wsh", "sh-wsh", "sh", "wpkh", "sh-wpkh", "pkh", "tr"}
\* the number of space-separated fields after the prefix
ArgCounts == 1..4

\* a request: the script type, the number of paths, whether a redeem script
\* came with it, and the wallet of the list that owns the address (0: none)
AddrRequests ==
    [type : ScriptTypes, nargs : ArgCounts, npaths : 1..MaxPaths,
     owner : 0..2]

\* lines 503-508: the address of a redeem script
ScriptAddress(type) ==
    IF type = "wsh" THEN <<"p2wsh", "redeem">>
    ELSE IF type = "sh-wsh" THEN <<"p2sh", "p2wsh", "redeem">>
    ELSE IF type = "sh" THEN <<"p2sh", "redeem">>
    ELSE <<>>

\* lines 518-525: the address of the key at the path
KeyAddress(type) ==
    IF type = "wpkh" THEN <<"p2wpkh", "pub">>
    ELSE IF type = "sh-wpkh" THEN <<"p2sh", "p2wpkh", "pub">>
    ELSE IF type = "pkh" THEN <<"p2pkh", "pub">>
    ELSE <<>>

\* lines 631-645: the wallet that owns the address, or the error
find_wallet_from_address(ws, owner) ==
    IF owner \in 1..Len(ws) THEN [raised |-> FALSE, w |-> owner]
    ELSE [raised |-> TRUE, w |-> 0]

\* lines 261-268 and 491-532, up to the wallet screen
showaddr(rq, ws) ==
    IF rq.nargs \notin {2, 3} THEN [err |-> "MalformedRequest", address |-> <<>>]
    ELSE IF rq.nargs = 3
    THEN IF ScriptAddress(rq.type) = <<>>
         THEN [err |-> "UnsupportedScriptType", address |-> <<>>]
         ELSE IF find_wallet_from_address(ws, rq.owner).raised
         THEN [err |-> "AddressNotFound", address |-> <<>>]
         ELSE [err |-> "", address |-> ScriptAddress(rq.type)]
    ELSE IF rq.npaths # 1
    THEN [err |-> "MalformedRequest", address |-> <<>>]
    ELSE IF KeyAddress(rq.type) = <<>>
    THEN [err |-> "UnsupportedScriptType", address |-> <<>>]
    ELSE IF find_wallet_from_address(ws, rq.owner).raised
    THEN [err |-> "AddressNotFound", address |-> <<>>]
    ELSE [err |-> "", address |-> KeyAddress(rq.type)]

InitAddr ==
    /\ network = "main"
    /\ uid = "id1"
    /\ stream = <<>>
    /\ pos = 0
    /\ phase = "new"
    /\ cmd = NoCmd
    /\ cmd2 = NoCmd
    /\ tempdir = {}
    /\ pc = "activated"
    /\ encoding = BASE64_STREAM
    /\ psbt = NoPsbt
    /\ psbt0 = NoPsbt
    /\ sighash = NoSighash
    /\ owns = <<>>
    /\ spend = <<>>
    /\ unknown_assets = <<>>
    /\ label_i = 0
    /\ assets = BuiltinAssets
    /\ disk_assets = <<>>
    /\ wallets = <<W(DefaultDesc, 0), W("wsh(X)", 1)>>
    /\ disk_wallets = <<>>
    /\ sign_i = 0
    /\ sigsStart = 0
    /\ log = <<>>
    /\ result = "pending"
    /\ dirs = (0 :> DefaultDesc) @@ (1 :> "wsh(X)")
    /\ files = <<>>
    /\ meta = <<>>

addrFrame == <<network, uid, stream, pos, phase, cmd2, tempdir, encoding,
               psbt, psbt0, sighash, owns, spend, unknown_assets, label_i,
               assets, disk_assets, wallets, disk_wallets, sign_i, sigsStart,
               log, dirs, files>>

\* lines 260-275 with showaddr up to line 528
HostShowAddr ==
    /\ pc \in {"activated", "done"}
    /\ cmd' = DERIVE_ADDRESS
    /\ \E rq \in AddrRequests :
        LET r == showaddr(rq, wallets)
        IN  /\ meta' = [rq |-> rq, address |-> r.address]
            /\ IF r.err # ""
               THEN pc' = "done" /\ result' = r.err
               ELSE pc' = "show_address" /\ result' = "pending"
    /\ UNCHANGED addrFrame

\* lines 529-532 and 275: the wallet screen is closed, the address returned
CloseAddress ==
    /\ pc = "show_address"
    /\ pc' = "done"
    /\ result' = "address"
    /\ UNCHANGED <<cmd, meta, addrFrame>>

NextAddr == HostShowAddr \/ CloseAddress

SpecAddr == InitAddr /\ [][NextAddr]_vars

(***************************************************************************)
(* parse_psbt on its own (lines 647-783): the structure, the network and   *)
(* the answers of Wallet.owns are drawn, and the function is applied once. *)
(***************************************************************************)
\* the values of inputs
MaxValue == 2

\* structures of one or two inputs with the sighash unset or ALL
MatchPsbts(net) ==
    {[inputs |-> [i \in 1..Len(vs) |->
                    [utxo |-> TRUE, sighash |-> sh, asset |-> asset,
                     value |-> vs[i], sigs |-> {}]],
      outputs |-> <<oa>>, digest |-> FALSE] :
        vs \in UNION {[1..n -> 1..MaxValue] : n \in 1..MaxInputs},
        sh \in {0, SIGHASH_ALL},
        asset \in InputAssets(net),
        oa \in OutputSet(net)}

\* Wallet.owns may accept an input for several wallets
ManyOwnerSets(nwallets) == SUBSET (1..nwallets)

InitMatch ==
    /\ network \in Networks
    /\ uid = "id1"
    /\ stream = <<>>
    /\ pos = 0
    /\ phase = "new"
    /\ cmd = SIGN_PSBT
    /\ cmd2 = NoCmd
    /\ tempdir = {}
    /\ pc = "match"
    /\ encoding = BASE64_STREAM
    /\ psbt \in MatchPsbts(network)
    /\ psbt0 = NoPsbt
    /\ sighash = NoSighash
    /\ owns = <<>>
    /\ spend = <<>>
    /\ unknown_assets = <<>>
    /\ label_i = 0
    /\ assets = DefaultAssets
    /\ disk_assets = DefaultAssets
    /\ wallets = StoredWallets
    /\ disk_wallets = StoredWallets
    /\ sign_i = 0
    /\ sigsStart = 0
    /\ log = <<>>
    /\ result = "pending"
    /\ dirs = <<>>
    /\ files = <<>>
    /\ meta = <<>>

\* lines 647-783, applied once
ParsePsbt ==
    /\ pc = "match"
    /\ pc' = "done"
    /\ \E o \in [1..Len(psbt.inputs) -> ManyOwnerSets(Len(wallets))] :
        LET r == parse_psbt(psbt, o, Len(wallets), DOMAIN assets, network)
        IN  /\ owns' = o
            /\ result' = IF r.raised # "no" THEN r.raised ELSE "parsed"
            /\ spend' = IF r.raised # "no" THEN <<>> ELSE r.wallets
            /\ unknown_assets' = IF r.raised # "no" THEN <<>> ELSE r.unknown_assets
            /\ meta' = IF r.raised # "no" THEN <<>> ELSE r.warnings
    /\ UNCHANGED <<network, stream, pos, phase, cmd, cmd2, uid, dirs, files,
                   tempdir, encoding, psbt, psbt0, sighash, label_i, assets,
                   disk_assets, wallets, disk_wallets, sign_i, sigsStart, log>>

NextMatch == ParsePsbt

SpecMatch == InitMatch /\ [][NextMatch]_vars

(***************************************************************************)
(* The second half of parse_psbt (lines 727-783): the change outputs, the  *)
(* effective gap bounds and the gap warnings.  An input and an output      *)
(* carry the branch and the index that Wallet.get_derivation reads from    *)
(* their derivation hints; outOwns[i] is the set of wallets whose owns()   *)
(* accepts output i.  An output's blinding_pubkey is empty on a network    *)
(* that is not confidential.                                               *)
(***************************************************************************)
\* number of outputs of a structure
MaxChange == 2

\* type(w).GAP_LIMIT of line 759
GAP_LIMIT == 20
InputIndexes == {0, 10}
OutputIndexes == {25, 35}
GapWarning == "Address index is beyond the gap limit!"

\* the inputs: the receiving branch at both indexes, the change branch at
\* the higher one
ChangeInputs(net) ==
    {i \in [utxo : {TRUE}, sighash : {0}, value : {1}, sigs : {{}},
            asset : IF is_liquid(net) THEN {AssetTBTC} ELSE {"none"},
            branch : 0..1, idx : InputIndexes] :
        i.branch = 1 => i.idx = 10}

ChangeOutputs(net) ==
    [asset : IF is_liquid(net) THEN {AssetTBTC} ELSE {"none"},
     blinding_pubkey : IF is_liquid(net) THEN BOOLEAN ELSE {FALSE},
     branch : {1}, idx : OutputIndexes]

ChangePsbts(net) ==
    {[inputs |-> ins, outputs |-> outs, digest |-> FALSE] :
        ins \in UNION {[1..n -> ChangeInputs(net)] : n \in 1..MaxInputs},
        outs \in UNION {[1..n -> ChangeOutputs(net)] : n \in 1..MaxChange}}

\* line 742: the test that makes an output a change output of wallet w
OwnsOutput(out, ownset, w) == out.blinding_pubkey /\ w \in ownset

\* lines 740-746: the first wallet of the summary that passes the test, 0
\* when none does; the entry for no wallet is passed over
RECURSIVE ChangeWallet(_, _, _, _)
ChangeWallet(out, ownset, ws, k) ==
    IF k > Len(ws) THEN 0
    ELSE IF ws[k] # 0 /\ OwnsOutput(out, ownset, ws[k]) THEN ws[k]
    ELSE ChangeWallet(out, ownset, ws, k + 1)

\* lines 727-746
FlagChange(p, outOwns, ws) ==
    [i \in 1..Len(p.outputs) |-> ChangeWallet(p.outputs[i], outOwns[i], ws, 1)]

\* RaiseGap without the comparison of line 758
RaiseGapAlways(g, idx) == idx + GAP_LIMIT

\* lines 758-759
RaiseGap(g, idx) == IF g < idx + GAP_LIMIT THEN idx + GAP_LIMIT ELSE g

\* line 748: the bounds the computation starts from
StartGaps(ws, wl) ==
    [k \in 1..Len(ws) |-> IF ws[k] = 0 THEN <<0, 0>> ELSE wl[ws[k]].gaps]

\* lines 754-759: input i raises the bounds of the wallets that own it
RaiseFor(p, i, inOwns, ws, gaps) ==
    [k \in 1..Len(ws) |->
        IF ws[k] # 0 /\ ws[k] \in inOwns[i]
        THEN [gaps[k] EXCEPT ![p.inputs[i].branch + 1] =
                 RaiseGap(@, p.inputs[i].idx)]
        ELSE gaps[k]]

\* lines 753-759: the bounds after each input, the starting bounds first
RECURSIVE GapSteps(_, _, _, _, _)
GapSteps(p, i, inOwns, ws, acc) ==
    IF i > Len(p.inputs) THEN acc
    ELSE GapSteps(p, i + 1, inOwns, ws,
                  Append(acc, RaiseFor(p, i, inOwns, ws, acc[Len(acc)])))

\* lines 765-780 for one change output: the wallets of the summary in
\* order; the entry for no wallet has no owns()
RECURSIVE CheckOutput(_, _, _, _, _)
CheckOutput(out, ownset, ws, gaps, j) ==
    IF j > Len(ws) THEN "ok"
    ELSE IF ws[j] = 0 THEN "AttributeError"
    ELSE IF ws[j] \in ownset /\ out.idx > gaps[j][out.branch + 1] THEN "warn"
    ELSE CheckOutput(out, ownset, ws, gaps, j + 1)

\* lines 761-780: the outputs in order
RECURSIVE CheckGaps(_, _, _, _, _, _, _)
CheckGaps(p, flags, outOwns, ws, gaps, i, acc) ==
    IF i > Len(p.outputs) \/ acc.raised # "no" THEN acc
    ELSE IF flags[i] = 0
    THEN CheckGaps(p, flags, outOwns, ws, gaps, i + 1, acc)
    ELSE LET c == CheckOutput(p.outputs[i], outOwns[i], ws, gaps, 1)
         IN  CheckGaps(p, flags, outOwns, ws, gaps, i + 1,
                IF c = "warn"
                THEN [acc EXCEPT !.warnings = Append(@, GapWarning)]
                ELSE IF c = "ok" THEN acc
                ELSE [acc EXCEPT !.raised = c])

\* GapsAfterParse when line 748 takes the wallet's own list
GapsAfterParseAliased(persisted, effective) == effective

\* line 748: '[] + w.gaps' is a new list, so the wallet keeps its bounds
GapsAfterParse(persisted, effective) == persisted

\* self.wallets after parse_psbt
WalletsAfterParse(wl, ws, gaps) ==
    [w \in 1..Len(wl) |->
        IF \E k \in 1..Len(ws) : ws[k] = w
        THEN [wl[w] EXCEPT !.gaps =
                GapsAfterParse(@, gaps[CHOOSE k \in 1..Len(ws) : ws[k] = w])]
        ELSE wl[w]]

\* lines 782-783, or the exception of line 767
Returned(base, chk, flags, steps, after) ==
    [raised |-> chk.raised,
     wallets |-> IF chk.raised = "no" THEN base.wallets ELSE <<>>,
     warnings |-> IF chk.raised = "no" THEN chk.warnings ELSE <<>>,
     change |-> flags,
     steps |-> steps,
     after |-> after]

\* lines 761-781
WithGaps(p, outOwns, wl, base, ws, flags, steps) ==
    Returned(base,
             CheckGaps(p, flags, outOwns, ws, steps[Len(p.inputs) + 1], 1,
                       [raised |-> "no", warnings |-> base.warnings]),
             flags, steps,
             WalletsAfterParse(wl, ws, steps[Len(p.inputs) + 1]))

\* lines 727-759
WithSummary(p, inOwns, outOwns, wl, base, ws) ==
    WithGaps(p, outOwns, wl, base, ws, FlagChange(p, outOwns, ws),
             GapSteps(p, 1, inOwns, ws, <<StartGaps(ws, wl)>>))

\* the wallets of the summary, 0 for None
SummaryWallets(base) == [k \in 1..Len(base.wallets) |-> base.wallets[k].w]

\* lines 726-783 after the input pass
AfterInputs(p, inOwns, outOwns, wl, base) ==
    IF base.raised # "no"
    THEN [raised |-> base.raised, wallets |-> <<>>, warnings |-> <<>>,
          change |-> <<>>, steps |-> <<>>, after |-> wl]
    ELSE WithSummary(p, inOwns, outOwns, wl, base, SummaryWallets(base))

\* lines 647-783: what is returned, and the wallet list afterwards
parse_psbt_meta(p, inOwns, outOwns, wl, known, net) ==
    AfterInputs(p, inOwns, outOwns, wl, parse_psbt(p, inOwns, Len(wl), known, net))

\* get_derivation is called for a scope only under a wallet that owns it
\* (lines 758-759 and 767-768): the hints of a scope that no wallet owns
\* are never read, and such a scope carries the lowest ones
Hinted(p, inOwns, outOwns) ==
    /\ \A i \in 1..Len(p.inputs) :
          inOwns[i] = {} => p.inputs[i].branch = 0 /\ p.inputs[i].idx = 0
    /\ \A i \in 1..Len(p.outputs) :
          outOwns[i] = {} => p.outputs[i].idx = 25

\* the answers of Wallet.owns for an output
OutputOwnerSets(nwallets) == {{}} \cup {{w} : w \in 1..nwallets}
\* and for an input: the first wallet or none, so that the second wallet
\* owns no input
InputOwnerSets == {{}, {1}}

InitChange ==
    /\ network \in Networks
    /\ uid = "id1"
    /\ stream = <<>>
    /\ pos = 0
    /\ phase = "new"
    /\ cmd = SIGN_PSBT
    /\ cmd2 = NoCmd
    /\ tempdir = {}
    /\ pc = "match"
    /\ encoding = BASE64_STREAM
    /\ psbt \in ChangePsbts(network)
    /\ psbt0 = NoPsbt
    /\ sighash = NoSighash
    /\ owns = <<>>
    /\ spend = <<>>
    /\ unknown_assets = <<>>
    /\ label_i = 0
    /\ assets = DefaultAssets
    /\ disk_assets = DefaultAssets
    /\ wallets = StoredWallets
    /\ disk_wallets = [i \in 1..Len(StoredWallets) |-> StoredWallets[i].gaps]
    /\ sign_i = 0
    /\ sigsStart = 0
    /\ log = <<>>
    /\ result = "pending"
    /\ dirs = <<>>
    /\ files = <<>>
    /\ meta = <<>>

changeFrame == <<network, stream, pos, phase, cmd, cmd2, uid, dirs, files,
                 tempdir, encoding, psbt, psbt0, sighash, label_i, assets,
                 disk_assets, disk_wallets, sign_i, sigsStart, log,
                 unknown_assets>>

\* lines 647-783: the first call
ParseChange ==
    /\ pc = "match"
    /\ pc' = "parsed"
    /\ \E i \in [1..Len(psbt.inputs) -> InputOwnerSets],
          o \in [1..Len(psbt.outputs) -> OutputOwnerSets(Len(wallets))] :
        LET r == parse_psbt_meta(psbt, i, o, wallets, DOMAIN assets, network)
        IN  /\ Hinted(psbt, i, o)
            /\ owns' = [ins |-> i, outs |-> o]
            /\ result' = IF r.raised # "no" THEN r.raised ELSE "parsed"
            /\ spend' = r.wallets
            /\ meta' = [warnings |-> r.warnings, change |-> r.change,
                        steps |-> r.steps]
            /\ wallets' = r.after
    /\ UNCHANGED changeFrame

\* a second call on the same structure with the same answers of owns()
ParseAgain ==
    /\ pc = "parsed"
    /\ pc' = "done"
    /\ LET r == parse_psbt_meta(psbt, owns.ins, owns.outs, wallets,
                                DOMAIN assets, network)
       IN  /\ result' = IF r.raised # "no" THEN r.raised ELSE "parsed"
           /\ spend' = r.wallets
           /\ meta' = [warnings |-> r.warnings, change |-> r.change,
                       steps |-> r.steps,
                       first |-> [result |-> result, spend |-> spend,
                                  warnings |-> meta.warnings,
                                  change |-> meta.change]]
           /\ wallets' = r.after
    /\ UNCHANGED <<owns, changeFrame>>

NextChange == ParseChange \/ ParseAgain

SpecChange == InitChange /\ [][NextChange]_vars

(***************************************************************************)
(* Properties of the signing pipeline.  The log holds, in order, every     *)
(* screen shown, every answer given, and every call to a signer or to the  *)
(* range-proof generator.                                                  *)
(***************************************************************************)
Has(e) == \E k \in 1..Len(log) : log[k] = e

SigningCalls == {k \in 1..Len(log) : log[k].ev = "sign_psbt"}
ProofCalls == {k \in 1..Len(log) : log[k].ev = "rangeproof_sign"}

\* the inputs of p that declare a sighash other than the network's default
CustomInputs(p) ==
    {i \in 1..Len(p.inputs) :
        p.inputs[i].sighash \notin {0, DefaultSighash(network)}}

AllCustom(p) == Len(p.inputs) > 0 /\ CustomInputs(p) = 1..Len(p.inputs)
PartlyCustom(p) == CustomInputs(p) # {} /\ CustomInputs(p) # 1..Len(p.inputs)

\* the stored state a request starts from
StoredUntouched ==
    /\ wallets = StoredWallets
    /\ disk_wallets = [i \in 1..Len(StoredWallets) |-> StoredWallets[i].gaps]

\* the answers that cancel a run
CancellingAnswer(e) ==
    \/ e = Answer("prompt:sighash", FALSE) /\ AllCustom(psbt0)
    \/ e = Answer("input:label", FALSE)
    \/ e = Answer("prompt:unknown", FALSE)
    \/ e = Answer("screen:tx", FALSE)

\* C1: when sign_psbt hands back a result the structure holds strictly more
\* partial signatures than the structure that was decoded; when the
\* transaction was accepted and the signing calls were made without adding
\* a signature, the run fails with the "no signatures added" error.
InvC1 ==
    /\ result = "signed" => SigCount(psbt, 1) > SigCount(psbt0, 1)
    /\ (/\ pc = "done"
        /\ Has(Answer("screen:tx", TRUE))
        /\ \E k \in SigningCalls : log[k].who = "keystore"
        /\ SigCount(psbt, 1) = SigCount(psbt0, 1))
       => result = "NoSignaturesAdded"

\* a signed result over a structure that came with signatures already
WitC1 ==
    /\ result = "signed"
    /\ SigCount(psbt0, 1) > 0
    /\ SigCount(psbt, 1) > SigCount(psbt0, 1)

\* C2: every signing call and every range-proof generation comes after the
\* accepted transaction screen; a declined cancelling prompt is the last
\* thing of the run, which ends with no result, no error and no signing
\* call.
InvC2 ==
    /\ \A k \in SigningCalls \cup ProofCalls :
          \E j \in 1..(k - 1) : log[j] = Answer("screen:tx", TRUE)
    /\ \A k \in 1..Len(log) :
          CancellingAnswer(log[k])
          => /\ k = Len(log)
             /\ pc = "done"
             /\ result = "none"
             /\ SigningCalls = {}
             /\ ProofCalls = {}

\* a run on a confidential network that made proofs, a wallet's signature
\* and the keystore's
WitC2 ==
    /\ result = "signed"
    /\ ProofCalls # {}
    /\ \E k \in SigningCalls : log[k].who = "keystore"
    /\ \E k \in SigningCalls : log[k].who # "keystore"

\* C3: when a base64 or a streamed signing request has ended, on whatever
\* exit path, the scratch area is empty.
CexC3 ==
    (/\ pc = "done"
     /\ \/ cmd = SIGN_BCUR
        \/ cmd = SIGN_PSBT /\ encoding = BASE64_STREAM)
    => tempdir = {}

\* C4 as stated: after "decline" to the unknown-wallet prompt there is no
\* result, no signature added, and the wallets, the gap bounds, the asset
\* labels and everything persisted are as before the request.
CexC4 ==
    Has(Answer("prompt:unknown", FALSE))
    => /\ pc = "done"
       /\ result = "none"
       /\ psbt = psbt0
       /\ StoredUntouched
       /\ assets = DefaultAssets
       /\ disk_assets = DefaultAssets

\* the assets of p that the label map of a fresh manager does not know
UnlabelledAssets(p) ==
    ({p.inputs[i].asset : i \in 1..Len(p.inputs)}
        \cup {p.outputs[i].asset : i \in 1..Len(p.outputs)})
    \ (DOMAIN DefaultAssets \cup {"none"})

\* C4 as amended: after "decline" to the unknown-wallet prompt there is no
\* result, no signature added, and the wallets, their gap bounds and their
\* persisted copies are as before; the asset labels, in memory and
\* persisted, are the old ones and, when the labelling loop was run, the
\* labels entered in it.
InvC4 ==
    Has(Answer("prompt:unknown", FALSE))
    => /\ pc = "done"
       /\ result = "none"
       /\ psbt = psbt0
       /\ StoredUntouched
       /\ disk_assets = assets
       /\ \A a \in DOMAIN DefaultAssets :
             a \in DOMAIN assets /\ assets[a] = DefaultAssets[a]
       /\ DOMAIN assets \ DOMAIN DefaultAssets =
             IF Has(Answer("prompt:label", TRUE))
             THEN UnlabelledAssets(psbt0) ELSE {}

\* labels were entered, then the unknown-wallet prompt was declined
WitC4 ==
    /\ Has(Answer("prompt:unknown", FALSE))
    /\ Has(Answer("input:label", TRUE))
    /\ pc = "done"

\* C5 as stated: once the user has declined to label the unknown assets the
\* run is over with no result, the transaction screen is not shown and no
\* signing call is made.
CexC5 ==
    Has(Answer("prompt:label", FALSE))
    => /\ pc = "done"
       /\ result = "none"
       /\ ~Has(Shown("screen:tx"))
       /\ SigningCalls = {}

\* C5 as amended: when matching reports unknown assets and the user cancels
\* a label input, the run is over with no result, the transaction screen
\* is not shown and no signing call is made; when the user declines the
\* offer to label, no label is stored and the run goes on to the
\* unknown-wallet prompt or to the transaction screen.
InvC5 ==
    /\ Has(Answer("input:label", FALSE))
       => /\ pc = "done"
          /\ result = "none"
          /\ ~Has(Shown("screen:tx"))
          /\ SigningCalls = {}
    /\ \A k \in 1..Len(log) :
          log[k] = Answer("prompt:label", FALSE)
          => /\ k < Len(log)
             /\ log[k + 1] \in {Shown("prompt:unknown"), Shown("screen:tx")}
             /\ assets = DefaultAssets
             /\ disk_assets = DefaultAssets

\* the second label input was cancelled
WitC5 ==
    /\ Has(Answer("input:label", TRUE))
    /\ Has(Answer("input:label", FALSE))
    /\ result = "none"

\* C6: when every input declares a custom sighash and the prompt is
\* declined there is no result, the prompt and its answer are all that was
\* shown, matching has not run, no signing call was made and the structure
\* and the stored state are as decoded.
InvC6 ==
    (AllCustom(psbt0) /\ Has(Answer("prompt:sighash", FALSE)))
    => /\ pc = "done"
       /\ result = "none"
       /\ log = <<Shown("prompt:sighash"), Answer("prompt:sighash", FALSE)>>
       /\ owns = <<>>
       /\ spend = <<>>
       /\ psbt = psbt0
       /\ StoredUntouched
       /\ assets = DefaultAssets
       /\ disk_assets = DefaultAssets

\* two inputs, both custom, and the prompt declined
WitC6 ==
    /\ Len(psbt0.inputs) = 2
    /\ AllCustom(psbt0)
    /\ Has(Answer("prompt:sighash", FALSE))

\* C7: with some but not all inputs custom, after "sign only defaults"
\* every signing call carries the default sighash and no custom input gains
\* a signature; after "sign anyway" every signing call carries no sighash.
InvC7 ==
    PartlyCustom(psbt0)
    => /\ Has(Answer("prompt:sighash", FALSE))
          => /\ \A k \in SigningCalls : log[k].sh = DefaultSighash(network)
             /\ \A i \in CustomInputs(psbt0) :
                   psbt.inputs[i].sigs = psbt0.inputs[i].sigs
       /\ Has(Answer("prompt:sighash", TRUE))
          => \A k \in SigningCalls : log[k].sh = NoSighash

\* "sign only defaults" was chosen, a wallet and the keystore were called
\* and a default input was signed
WitC7 ==
    /\ PartlyCustom(psbt0)
    /\ Has(Answer("prompt:sighash", FALSE))
    /\ result = "signed"
    /\ \E k \in SigningCalls : log[k].who # "keystore"
    /\ \E i \in 1..Len(psbt0.inputs) :
          i \notin CustomInputs(psbt0) /\ psbt.inputs[i].sigs # psbt0.inputs[i].sigs

\* the inputs of p that carry no previous-output data
MissingUtxo(p) == {i \in 1..Len(p.inputs) : ~p.inputs[i].utxo}

\* C8: a decoded structure that passed its self-check and has an input
\* without previous-output data, at whatever position, ends the run with
\* the "missing previous transaction" error: nothing was shown, matching
\* has not run, no proof was made and no signing call.
InvC8 ==
    (MissingUtxo(psbt0) # {} /\ result # "MalformedRequest")
    => /\ pc = "done"
       /\ result = "MissingPreviousOutput"
       /\ log = <<>>
       /\ owns = <<>>
       /\ spend = <<>>
       /\ psbt = psbt0
       /\ StoredUntouched

\* the second input is the one without data, the first is custom
WitC8 ==
    /\ MissingUtxo(psbt0) = {2}
    /\ 1 \in CustomInputs(psbt0)
    /\ result = "MissingPreviousOutput"

(***************************************************************************)
(* Properties of the classifier.                                           *)
(***************************************************************************)
\* the bytes parse_stream looks at when the stream has no prefix
Peeked == ReadAt(stream, 0, PeekLen)

NoPrefix == ~get_prefix(stream, 0).found

HasScheme == StartsWith(Peeked, BBitcoinLower) \/ StartsWith(Peeked, BBitcoinUpper)

DecodesToMagic ==
    LET dec == a2b_base64(Peeked)
    IN  dec.ok /\ Take(dec.bytes, Len(PSBT_MAGIC)) \in {PSBT_MAGIC, PSET_MAGIC}

\* C9: a stream with no prefix, not a streaming envelope and not base64 of
\* a container magic is AddWallet when it has '&' and no '?', VerifyAddress
\* when it starts with the scheme or has 'index=', and none otherwise.
CexC9 ==
    (/\ phase = "classified"
     /\ NoPrefix
     /\ Take(Peeked, Len(BUrBytes)) # BUrBytes
     /\ ~DecodesToMagic)
    => cmd = IF Contains(Peeked, BAmp) /\ ~Contains(Peeked, BQuestion)
             THEN ADD_WALLET
             ELSE IF HasScheme \/ Contains(Peeked, BIndexEq)
             THEN VERIFY_ADDRESS
             ELSE NoCmd

\* C10: after a classification by the heuristics the stream is at 0 for
\* the streamed envelope, the base64 transaction and the descriptor, at 8
\* for an address with the scheme and at 0 for one without; a stream that
\* classified as none classifies as none again when re-read from 0.
InvC10 ==
    /\ (phase # "new" /\ NoPrefix)
       => /\ (IF phase = "classified" THEN cmd ELSE cmd2)
                \in {SIGN_BCUR, SIGN_PSBT, ADD_WALLET} => pos = 0
          /\ (IF phase = "classified" THEN cmd ELSE cmd2) = VERIFY_ADDRESS
                => pos = IF HasScheme THEN 8 ELSE 0
    /\ (phase = "reclassified" /\ cmd = NoCmd) => cmd2 = NoCmd

\* a descriptor longer than the bytes read, classified and rewound
WitC10 ==
    /\ phase = "classified"
    /\ NoPrefix
    /\ Len(stream) > PeekLen
    /\ cmd = ADD_WALLET
    /\ pos = 0


(***************************************************************************)
(* Properties of the asset registry.                                       *)
(***************************************************************************)
AssetRequest(s) == StartsWith(s, BAddasset) \/ StartsWith(s, BDumpassets)

\* a host request is taken up in this step
HostStep == pc \in {"activated", "done"} /\ pc' \in {"done", "prompt_asset"}

\* C11: on a network that is not confidential a stream with the addasset or
\* the dumpassets prefix is classified as no command, the request fails
\* with the unknown-command error and neither the asset map nor the asset
\* files change.
InvC11 ==
    [][(HostStep /\ ~is_liquid(network) /\ AssetRequest(stream'))
        => (/\ cmd' = NoCmd
            /\ result' = "UnknownCommand"
            /\ assets' = assets
            /\ files' = files)]_vars

WitC11 ==
    /\ pc = "done"
    /\ ~is_liquid(network)
    /\ AssetRequest(stream)
    /\ result = "UnknownCommand"


\* the accepted imports that no later accepted import of the same asset
\* replaced
StandingImports ==
    {i \in 1..Len(log) :
        /\ log[i].ev = "import"
        /\ \A j \in (i + 1)..Len(log) :
            log[j].ev = "import" => AssetKey(log[j].who) # AssetKey(log[i].who)}

\* C16: after an accepted import of a hex asset id with a label, a later
\* dump returns a JSON object that maps exactly that hex id to exactly that
\* label.
CexC16 ==
    (pc = "done" /\ result = "dumped")
        => \A i \in StandingImports :
            /\ log[i].who \in DOMAIN meta
            /\ meta[log[i].who] = log[i].sh

\* the labels save_assets last wrote for the identity and the network
LastPersisted(id, net) ==
    IF SavePath(id, net) \in DOMAIN files THEN files[SavePath(id, net)]
    ELSE <<>>

\* C17: when init has activated an identity and a network, the asset map in
\* memory holds the labels last persisted for that pair and the built-in
\* entry, and nothing else.
CexC17 ==
    pc = "activated"
        => assets_json(assets)
            = LastPersisted(uid, network) @@ assets_json(BuiltinAssets)


(***************************************************************************)
(* Properties of the wallet store.                                         *)
(***************************************************************************)
ValidSlots(d) == {slot \in DOMAIN d : d[slot] # Corrupt}
CorruptSlots(d) == {slot \in DOMAIN d : d[slot] = Corrupt}
Tracked == {wallets[i] : i \in 1..Len(wallets)}
Activated == pc = "activated" /\ meta.op = "init"

\* C12: when load_wallets meets an entry that fails to load, that slot is
\* wiped and every valid entry is still loaded into the list.
CexC12 ==
    Activated =>
        /\ CorruptSlots(dirs) = {}
        /\ \A slot \in ValidSlots(meta.dirs) :
            W(meta.dirs[slot], slot) \in Tracked

\* C13: init creates the default wallet only when no wallet exists; when
\* a valid wallet is persisted it creates none and slot 0 is not rewritten.
CexC13 ==
    (Activated /\ ValidSlots(meta.dirs) # {}) =>
        /\ result = "loaded"
        /\ (0 \in DOMAIN meta.dirs /\ meta.dirs[0] # Corrupt)
            => (0 \in DOMAIN dirs /\ dirs[0] = meta.dirs[0])
        /\ 0 \notin DOMAIN meta.dirs => 0 \notin DOMAIN dirs

\* C14: an AddWallet whose descriptor is that of a tracked wallet fails with
\* the already-exists error and leaves the store as it was; and in an
\* activated store no two tracked wallets have the same descriptor.
CexC14 ==
    /\ (pc = "done" /\ result = "WalletAlreadyExists")
        => (wallets = meta.wallets /\ dirs = meta.dirs)
    /\ pc \in {"activated", "done"}
        => \A i, j \in 1..Len(wallets) :
            wallets[i].desc = wallets[j].desc => i = j

\* the list in memory and the persisted slots correspond one to one
OneToOne ==
    /\ \A i, j \in 1..Len(wallets) : wallets[i].slot = wallets[j].slot => i = j
    /\ {wallets[i].slot : i \in 1..Len(wallets)} = DOMAIN dirs
    /\ \A i \in 1..Len(wallets) : dirs[wallets[i].slot] = wallets[i].desc

\* C15: after any adds and deletes the list in memory and the persisted
\* slots correspond one to one; an add appends and persists at an unused
\* slot or fails and changes neither; a delete of a tracked wallet removes
\* it from both; a delete of an untracked wallet fails with not-found.
CexC15 ==
    /\ pc \in {"activated", "done"} => OneToOne
    /\ (pc = "done" /\ cmd = ADD_WALLET /\ result \notin {"added", "declined"})
        => (wallets = meta.wallets /\ dirs = meta.dirs)
    /\ (pc = "done" /\ result = "WalletNotFound")
        => (wallets = meta.wallets /\ dirs = meta.dirs)


(***************************************************************************)
(* Properties of address derivation.                                       *)
(***************************************************************************)
AddrDone == pc = "done" /\ cmd = DERIVE_ADDRESS
RedeemRequest(rq) == rq.nargs = 3
KeyRequest(rq) == rq.nargs = 2
Supported(rq) ==
    \/ RedeemRequest(rq) /\ ScriptAddress(rq.type) # <<>>
    \/ KeyRequest(rq) /\ rq.npaths = 1 /\ KeyAddress(rq.type) # <<>>

Derived(rq) ==
    IF RedeemRequest(rq) THEN ScriptAddress(rq.type) ELSE KeyAddress(rq.type)

\* C18: a request with a supported script type and valid arguments returns
\* the derived address, also when no stored wallet owns it; an unsupported
\* script type and a key-path request without exactly one path fail.
CexC18 ==
    AddrDone =>
        /\ Supported(meta.rq)
            => (result = "address" /\ meta.address = Derived(meta.rq))
        /\ (RedeemRequest(meta.rq) /\ ScriptAddress(meta.rq.type) = <<>>)
            => result = "UnsupportedScriptType"
        /\ (KeyRequest(meta.rq) /\ meta.rq.npaths # 1)
            => result = "MalformedRequest"


(***************************************************************************)
(* Properties of parse_psbt.                                               *)
(***************************************************************************)
Parsed == pc = "done" /\ cmd = SIGN_PSBT /\ result = "parsed"

\* the wallet an input counts for: the lowest position among the wallets
\* that own it, 0 when none does
Attributed(i) ==
    IF owns[i] = {} THEN 0
    ELSE CHOOSE w \in owns[i] : \A v \in owns[i] : w <= v

\* the first input that counts for w
FirstSeen(w) ==
    CHOOSE i \in 1..Len(psbt.inputs) :
        Attributed(i) = w /\ \A j \in 1..(i - 1) : Attributed(j) # w

RECURSIVE ValueOf(_, _)
ValueOf(w, i) ==
    IF i > Len(psbt.inputs) THEN 0
    ELSE (IF Attributed(i) = w THEN psbt.inputs[i].value ELSE 0)
            + ValueOf(w, i + 1)

RECURSIVE TotalIn(_)
TotalIn(i) ==
    IF i > Len(psbt.inputs) THEN 0 ELSE psbt.inputs[i].value + TotalIn(i + 1)

RECURSIVE TotalSpend(_)
TotalSpend(k) ==
    IF k > Len(spend) THEN 0 ELSE spend[k].amount + TotalSpend(k + 1)

\* C19: in a spend summary that parse_psbt returns every wallet, and the
\* entry for no wallet, occurs at most once; the entries are in the order in
\* which their first inputs occur; every input counts for the first wallet
\* of the list that owns it; and the amounts add up to the inputs' values.
InvC19 ==
    Parsed =>
        /\ \A k, l \in 1..Len(spend) : spend[k].w = spend[l].w => k = l
        /\ {spend[k].w : k \in 1..Len(spend)}
            = {Attributed(i) : i \in 1..Len(psbt.inputs)}
        /\ \A k, l \in 1..Len(spend) :
            k < l => FirstSeen(spend[k].w) < FirstSeen(spend[l].w)
        /\ \A k \in 1..Len(spend) : spend[k].amount = ValueOf(spend[k].w, 1)
        /\ TotalSpend(1) = TotalIn(1)

WitC19 ==
    /\ Parsed
    /\ Len(psbt.inputs) = 2
    /\ owns[1] = {1, 2}
    /\ owns[2] = {1}
    /\ Len(spend) = 1
    /\ spend[1].w = 1
    /\ spend[1].amount = 3

KnownOwners == {Attributed(i) : i \in 1..Len(psbt.inputs)} \ {0}
Warned(text) == \E k \in 1..Len(meta) : meta[k] = text

\* C20: when the inputs count for more than one known wallet parse_psbt
\* completes with the mixed-inputs warning, and when an input counts for no
\* wallet it completes with the unknown-wallet warning.
CexC20 ==
    (pc = "done" /\ cmd = SIGN_PSBT) =>
        /\ Cardinality(KnownOwners) > 1
            => (result = "parsed" /\ Warned("Mixed inputs!"))
        /\ (\E i \in 1..Len(psbt.inputs) : Attributed(i) = 0)
            => (result = "parsed" /\ Warned("Unknown wallet in input!"))


(***************************************************************************)
(* Properties of the change outputs and the gap bounds.                    *)
(***************************************************************************)
Returns == pc \in {"parsed", "done"} /\ result = "parsed"

\* the effective bounds at the end of the input loop
EffectiveGaps == meta.steps[Len(meta.steps)]

\* C21: parse_psbt leaves the wallet list, every wallet's gap bounds, the
\* asset labels and what is persisted as they were, and a second call on the
\* same arguments returns the same summary and the same metadata.
InvC21 ==
    /\ pc \in {"parsed", "done"}
        => /\ wallets = StoredWallets
           /\ disk_wallets = [i \in 1..Len(StoredWallets) |-> StoredWallets[i].gaps]
           /\ assets = DefaultAssets
           /\ disk_assets = DefaultAssets
    /\ pc = "done"
        => /\ result = meta.first.result
           /\ spend = meta.first.spend
           /\ meta.warnings = meta.first.warnings
           /\ meta.change = meta.first.change

WitC21 ==
    /\ pc = "done"
    /\ result = "parsed"
    /\ Len(spend) = 1
    /\ spend[1].w = 1
    /\ EffectiveGaps[1] # StoredWallets[1].gaps
    /\ meta.warnings = <<GapWarning>>


\* the wallets that own an input of the structure
InputOwners == UNION {owns.ins[i] : i \in 1..Len(psbt.inputs)}

\* C22: on every network an output is flagged as change, with the wallet's
\* name, exactly when a wallet that owns an input owns the output; an output
\* that only wallets without an input own is never flagged.
CexC22 ==
    Returns =>
        \A i \in 1..Len(psbt.outputs) :
            /\ meta.change[i] # 0 <=> (owns.outs[i] \cap InputOwners # {})
            /\ meta.change[i] # 0 => meta.change[i] \in owns.outs[i] \cap InputOwners


\* the indexes of the inputs that wallet w owns on branch b, with the gap
\* limit added
Reaches(w, b) ==
    {psbt.inputs[i].idx + GAP_LIMIT :
        i \in {j \in 1..Len(psbt.inputs) :
                 w \in owns.ins[j] /\ psbt.inputs[j].branch = b}}

Largest(S, least) == CHOOSE x \in S \cup {least} : \A y \in S \cup {least} : y <= x

\* C23: the effective bound of a matched wallet and a branch is the larger
\* of the persisted bound and the largest input index of that wallet on
\* that branch plus the gap limit; it is never below the persisted bound and
\* never decreases from one input to the next.
InvC23 ==
    Returns =>
        \A k \in 1..Len(spend) : \A b \in 0..1 :
            spend[k].w # 0 =>
                /\ EffectiveGaps[k][b + 1]
                    = Largest(Reaches(spend[k].w, b), StoredWallets[spend[k].w].gaps[b + 1])
                /\ meta.steps[1][k][b + 1] = StoredWallets[spend[k].w].gaps[b + 1]
                /\ \A t \in 1..(Len(meta.steps) - 1) :
                    meta.steps[t][k][b + 1] <= meta.steps[t + 1][k][b + 1]

WitC23 ==
    /\ Returns
    /\ Len(psbt.inputs) = 2
    /\ psbt.inputs[1].idx = 10
    /\ psbt.inputs[2].idx = 0
    /\ psbt.inputs[1].branch = psbt.inputs[2].branch
    /\ Len(spend) = 1
    /\ spend[1].w = 1
    /\ EffectiveGaps[1][psbt.inputs[1].branch + 1] = 30


GapWarnings == {k \in 1..Len(meta.warnings) : meta.warnings[k] = GapWarning}

\* the outputs that carry a blinding key, belong to a wallet that owns an
\* input and have an index above that wallet's effective bound
Exceeding ==
    {i \in 1..Len(psbt.outputs) :
        /\ psbt.outputs[i].blinding_pubkey
        /\ \E w \in owns.outs[i] \cap InputOwners :
            psbt.outputs[i].idx
                > Largest(Reaches(w, psbt.outputs[i].branch),
                          StoredWallets[w].gaps[psbt.outputs[i].branch + 1])}

\* C24: the warnings that parse_psbt returns hold the gap warning at most
\* once, also when several change outputs are above their bound, and
\* exactly once when some change output is, also when the transaction has
\* inputs of no wallet.
CexC24 ==
    pc \in {"parsed", "done"} =>
        /\ Cardinality(GapWarnings) <= 1
        /\ Exceeding # {} => (result = "parsed" /\ Cardinality(GapWarnings) = 1)


(***************************************************************************)
(* Properties of finalization and of the signing loop.                     *)
(***************************************************************************)
\* C25: on a confidential network, once the transaction is accepted, the
\* outputs without the nonce field are folded into the digest without an
\* error, whatever their proofs and their position, and the digest is set
\* on the transaction before any signing call.
CexC25 ==
    (is_liquid(network) /\ Has(Answer("screen:tx", TRUE)))
        => /\ result # "NameError"
           /\ SigningCalls # {} => psbt.digest


\* where the signing steps begin in the log: after the accepting answer and
\* the proofs
SigningStart ==
    CHOOSE k \in 1..Len(log) :
        /\ log[k] = Answer("screen:tx", TRUE) \/ log[k].ev = "rangeproof_sign"
        /\ \A j \in (k + 1)..Len(log) :
            log[j] # Answer("screen:tx", TRUE) /\ log[j].ev # "rangeproof_sign"

SigningLog == SubSeq(log, SigningStart + 1, Len(log))

\* the steps of the first n entries of the spend summary, in order
RECURSIVE WalletSteps(_)
WalletSteps(n) ==
    IF n = 0 THEN <<>>
    ELSE IF spend[n].w = 0 THEN WalletSteps(n - 1)
    ELSE LET w == StoredWallets[spend[n].w]
         IN  WalletSteps(n - 1)
                \o <<Ev("update_gaps", w.name, -1), Ev("save", w.name, -1),
                     Ev("fill_psbt", w.name, -1)>>
                \o (IF w.has_private_keys
                    THEN <<Ev("sign_psbt", w.name, sighash)>> ELSE <<>>)

\* C26: after the transaction is accepted the wallets of the spend summary
\* are handled one after the other in its order, the unknown entry passed
\* over: gap update, save, derivation hints and, for a wallet with private
\* keys only, signing; then the keystore signs exactly once, after all of
\* them, also when no wallet matched or none holds private keys.
InvC26 ==
    /\ pc = "wallets" => SigningLog = WalletSteps(sign_i - 1)
    /\ (pc = "done" /\ result \in {"signed", "NoSignaturesAdded"})
        => SigningLog = WalletSteps(Len(spend))
                            \o <<Ev("sign_psbt", "keystore", sighash)>>

WitC26 ==
    /\ pc = "done"
    /\ result = "signed"
    /\ Len(spend) = 1
    /\ spend[1].w = 2
    /\ SigningLog = <<Ev("update_gaps", "w2", -1), Ev("save", "w2", -1),
                      Ev("fill_psbt", "w2", -1),
                      Ev("sign_psbt", "keystore", sighash)>>


\* C27: when the user cancels a label input, also after having given labels
\* to earlier assets of the same loop, sign_psbt returns no result and the
\* asset labels in memory are those from before the request, the same as
\* the persisted ones.
CexC27 ==
    Has(Answer("input:label", FALSE))
        => /\ pc = "done"
           /\ result = "none"
           /\ assets = DefaultAssets
           /\ assets = disk_assets

\* C28: when a request fails with the 'no signatures added' error no
\* wallet's gap bounds and nothing persisted of a wallet has changed.
CexC28 ==
    (pc = "done" /\ result = "NoSignaturesAdded") => StoredUntouched

=============================================================================
